---- MODULE Spec2Model ----
(***************************************************************************)
(* Learner Analytics Dashboard: the analysis engine analyzeLearnerData     *)
(* (utils/dataAnalysis.ts, the week-based version) as a state machine.     *)
(* Strings that the code lower-cases, trims or searches are sequences of   *)
(* one-character strings; strings that are only compared are TLA+ strings. *)
(***************************************************************************)
EXTENDS Integers, Sequences, FiniteSets, TLC

VARIABLES data, currentWeek, result, pc, file, uploadedData, app, chat, timers

vars == <<data, currentWeek, result, pc, file, uploadedData, app, chat, timers>>

(***************************************************************************)
(* Bounds of the model.                                                    *)
(***************************************************************************)
MaxRows == 3

(***************************************************************************)
(* JavaScript string primitives.                                           *)
(***************************************************************************)
UpperChars == <<"A", "B", "C", "D", "E", "F", "G", "H", "I", "J", "K", "L", "M",
                "N", "O", "P", "Q", "R", "S", "T", "U", "V", "W", "X", "Y", "Z">>

LowerChars == <<"a", "b", "c", "d", "e", "f", "g", "h", "i", "j", "k", "l", "m",
                "n", "o", "p", "q", "r", "s", "t", "u", "v", "w", "x", "y", "z">>

\* the lower-case letter of each upper-case letter
LowerOf ==
    [c \in {UpperChars[i] : i \in 1..Len(UpperChars)} |->
        LowerChars[CHOOSE i \in 1..Len(UpperChars) : UpperChars[i] = c]]

toLowerCaseChar(c) == IF c \in DOMAIN LowerOf THEN LowerOf[c] ELSE c

\* String.prototype.toLowerCase
toLowerCase(s) == [i \in 1..Len(s) |-> toLowerCaseChar(s[i])]

\* String.prototype.includes
includes(s, sub) ==
    \E i \in 0..(Len(s) - Len(sub)) : SubSeq(s, i + 1, i + Len(sub)) = sub

isWhitespace(c) == c \in {" ", "\t", "\n", "\r"}

\* String.prototype.trim
trim(s) ==
    LET keep == {i \in 1..Len(s) : ~isWhitespace(s[i])}
    IN IF keep = {} THEN <<>>
       ELSE LET lo == CHOOSE i \in keep : \A j \in keep : i <= j
                hi == CHOOSE i \in keep : \A j \in keep : j <= i
            IN SubSeq(s, lo, hi)

Digits == <<"0", "1", "2", "3", "4", "5", "6", "7", "8", "9">>

\* Number-to-string conversion of a template literal, for naturals
RECURSIVE numberToString(_)
numberToString(n) ==
    IF n < 10 THEN <<Digits[n + 1]>>
    ELSE Append(numberToString(n \div 10), Digits[(n % 10) + 1])

\* The value of a division by zero followed by Math.round
NaN == "NaN"

\* Math.floor in place of Math.round
floorPercentage(count, total) ==
    IF total = 0 THEN NaN
    ELSE (100 * count) \div total

\* Math.round((count / total) * 100): nearest integer, halves up
roundPercentage(count, total) ==
    IF total = 0 THEN NaN
    ELSE (200 * count + total) \div (2 * total)

(***************************************************************************)
(* The substrings the engine searches for.                                 *)
(***************************************************************************)
STR_move_to_week == <<"m", "o", "v", "e", " ", "t", "o", " ", "w", "e", "e", "k">>
STR_move_to_next == <<"m", "o", "v", "e", " ", "t", "o", " ", "n", "e", "x", "t">>
STR_completed == <<"c", "o", "m", "p", "l", "e", "t", "e", "d">>
STR_progress == <<"p", "r", "o", "g", "r", "e", "s", "s">>
STR_not_started == <<"n", "o", "t", " ", "s", "t", "a", "r", "t", "e", "d">>
STR_developer_fundamentals == <<"d", "e", "v", "e", "l", "o", "p", "e", "r", " ", "f", "u", "n",
                                "d", "a", "m", "e", "n", "t", "a", "l", "s">>
STR_Week == <<"W", "e", "e", "k", " ">>

(***************************************************************************)
(* JavaScript collections: Set and Map in insertion order (a Map is a      *)
(* sequence of [key, value] entries; set on an existing key keeps the      *)
(* entry's position and replaces its value). Array.prototype.map is a      *)
(* function over the indices, filter is SelectSeq, some is \E, and a       *)
(* counter incremented in a forEach is the cardinality of an index set.    *)
(***************************************************************************)
\* Array.from(new Set(values)): distinct values in order of first appearance
RECURSIVE distinctInOrder(_)
distinctInOrder(s) ==
    IF s = <<>> THEN <<>>
    ELSE LET front == distinctInOrder(SubSeq(s, 1, Len(s) - 1))
             x == s[Len(s)]
         IN IF \E i \in 1..Len(front) : front[i] = x THEN front ELSE Append(front, x)

mapHas(m, k) == \E i \in 1..Len(m) : m[i].key = k

mapGet(m, k) == m[CHOOSE i \in 1..Len(m) : m[i].key = k].value

mapSetFirstWins(m, k, v) ==
    IF mapHas(m, k) THEN m ELSE Append(m, [key |-> k, value |-> v])

mapSet(m, k, v) ==
    IF mapHas(m, k)
    THEN [i \in 1..Len(m) |-> IF m[i].key = k THEN [key |-> k, value |-> v] ELSE m[i]]
    ELSE Append(m, [key |-> k, value |-> v])

mapValues(m) == [i \in 1..Len(m) |-> m[i].value]

\* Array.prototype.sort with comparator (a, b) => a - b on numbers
RECURSIVE sortAscending(_)
sortAscending(s) ==
    IF s = <<>> THEN <<>>
    ELSE LET sorted == sortAscending(SubSeq(s, 1, Len(s) - 1))
             x == s[Len(s)]
             p == Cardinality({i \in 1..Len(sorted) : sorted[i] <= x})
         IN SubSeq(sorted, 1, p) \o <<x>> \o SubSeq(sorted, p + 1, Len(sorted))

(***************************************************************************)
(* analyzeLearnerData(data, currentWeek)                                   *)
(***************************************************************************)
maxOf(a, b) == IF a >= b THEN a ELSE b

\* const uniqueEmails = new Set(data.map(learner => learner.email)); its size
uniqueLearnerCount(rows) == Cardinality({rows[i].email : i \in 1..Len(rows)})

\* nextAction.includes('move to week') || nextAction.includes('move to next')
isReadyToAdvanceCaseSensitive(learner) ==
    \/ includes(learner.nextAction, STR_move_to_week)
    \/ includes(learner.nextAction, STR_move_to_next)

isReadyToAdvance(learner) ==
    LET nextAction == toLowerCase(learner.nextAction)
    IN \/ includes(nextAction, STR_move_to_week)
       \/ includes(nextAction, STR_move_to_next)

\* the predicate of data.filter(...) that yields offTrackLearners
isOffTrack(learner, currentAnalysisWeek) ==
    LET isBehindCurrentWeek == learner.currentWeek < currentAnalysisWeek
    IN IF ~isBehindCurrentWeek THEN FALSE ELSE ~isReadyToAdvance(learner)

offTrackLearners(rows, currentAnalysisWeek) ==
    SelectSeq(rows, LAMBDA learner : isOffTrack(learner, currentAnalysisWeek))

\* the predicate of data.filter(...) that starts atRiskLearners
isSaveableUpToFour(learner, currentAnalysisWeek) ==
    LET weeksBehind == currentAnalysisWeek - learner.currentWeek
    IN weeksBehind >= 1 /\ weeksBehind <= 4

isSaveable(learner, currentAnalysisWeek) ==
    LET weeksBehind == currentAnalysisWeek - learner.currentWeek
    IN weeksBehind >= 1 /\ weeksBehind <= 3

\* the body of .map(learner => ({...learner, weeksBeind, riskLevel}))
toAtRiskLearnerMediumFromThree(learner, currentAnalysisWeek) ==
    LET weeksBehind == maxOf(0, currentAnalysisWeek - learner.currentWeek)
        riskLevel == IF weeksBehind >= 6 THEN "High"
                     ELSE IF weeksBehind >= 3 THEN "Medium"
                     ELSE "Low"
    IN [weeksBeind |-> weeksBehind, riskLevel |-> riskLevel] @@ learner

toAtRiskLearner(learner, currentAnalysisWeek) ==
    LET weeksBehind == maxOf(0, currentAnalysisWeek - learner.currentWeek)
        riskLevel == IF weeksBehind = 3 THEN "High"
                     ELSE IF weeksBehind = 2 THEN "Medium"
                     ELSE IF weeksBehind = 1 THEN "Low"
                     ELSE "Low"
    IN [weeksBeind |-> weeksBehind, riskLevel |-> riskLevel] @@ learner

\* a sort that is not stable: an entry goes before its equals
RECURSIVE sortByWeeksBehindUnstable(_)
sortByWeeksBehindUnstable(s) ==
    IF s = <<>> THEN <<>>
    ELSE LET sorted == sortByWeeksBehindUnstable(SubSeq(s, 1, Len(s) - 1))
             x == s[Len(s)]
             p == Cardinality({i \in 1..Len(sorted) : sorted[i].weeksBeind > x.weeksBeind})
         IN SubSeq(sorted, 1, p) \o <<x>> \o SubSeq(sorted, p + 1, Len(sorted))

\* .sort((a, b) => b.weeksBeind - a.weeksBeind); Array.prototype.sort is stable
RECURSIVE sortByWeeksBehind(_)
sortByWeeksBehind(s) ==
    IF s = <<>> THEN <<>>
    ELSE LET sorted == sortByWeeksBehind(SubSeq(s, 1, Len(s) - 1))
             x == s[Len(s)]
             p == Cardinality({i \in 1..Len(sorted) : sorted[i].weeksBeind >= x.weeksBeind})
         IN SubSeq(sorted, 1, p) \o <<x>> \o SubSeq(sorted, p + 1, Len(sorted))

atRiskLearners(rows, currentAnalysisWeek) ==
    LET filtered == SelectSeq(rows, LAMBDA learner : isSaveable(learner, currentAnalysisWeek))
        mapped == [i \in 1..Len(filtered) |-> toAtRiskLearner(filtered[i], currentAnalysisWeek)]
    IN sortByWeeksBehind(mapped)

\* data.forEach(learner => courseLearnersMap.get(courseName).set(email, learner))
RECURSIVE courseLearnersMap(_)
courseLearnersMap(rows) ==
    IF rows = <<>> THEN <<>>
    ELSE LET m == courseLearnersMap(SubSeq(rows, 1, Len(rows) - 1))
             learner == rows[Len(rows)]
             courseName == learner.courseName
             m1 == IF ~mapHas(m, courseName) THEN mapSet(m, courseName, <<>>) ELSE m
         IN mapSet(m1, courseName, mapSet(mapGet(m1, courseName), learner.email, learner))

\* the chain without its final else: a status that matches no rule is counted nowhere
courseStatusBucketNoDefault(learner) ==
    IF includes(toLowerCase(learner.weekStatus), STR_completed) THEN "completed"
    ELSE IF includes(toLowerCase(learner.weekStatus), STR_progress) THEN "inProgress"
    ELSE IF includes(toLowerCase(learner.weekStatus), STR_not_started) THEN "notStarted"
    ELSE "other"

\* the if / else-if chain that categorises a learner's status per course
courseStatusBucket(learner) ==
    IF includes(toLowerCase(learner.weekStatus), STR_completed) THEN "completed"
    ELSE IF includes(toLowerCase(learner.weekStatus), STR_progress) THEN "inProgress"
    ELSE IF includes(toLowerCase(learner.weekStatus), STR_not_started) THEN "notStarted"
    ELSE "inProgress"

\* atRiskLearners.some(atRisk => atRisk.email === email && atRisk.courseName === courseName)
isAtRiskInCourse(learner, atRisk) ==
    \E i \in 1..Len(atRisk) :
        atRisk[i].email = learner.email /\ atRisk[i].courseName = learner.courseName

\* the stats object built for one entry of courseLearnersMap
courseStatsOf(courseName, learners, atRisk) ==
    LET ls == mapValues(learners)
    IN [courseName |-> courseName,
        totalLearners |-> Len(learners),
        inProgress |-> Cardinality({i \in 1..Len(ls) : courseStatusBucket(ls[i]) = "inProgress"}),
        completed |-> Cardinality({i \in 1..Len(ls) : courseStatusBucket(ls[i]) = "completed"}),
        notStarted |-> Cardinality({i \in 1..Len(ls) : courseStatusBucket(ls[i]) = "notStarted"}),
        atRisk |-> Cardinality({i \in 1..Len(ls) : isAtRiskInCourse(ls[i], atRisk)})]

\* courseMap filled from courseLearnersMap, then Array.from(courseMap.values())
courseStats(rows, atRisk) ==
    LET m == courseLearnersMap(rows)
    IN [i \in 1..Len(m) |-> courseStatsOf(m[i].key, m[i].value, atRisk)]

\* data.forEach(learner => uniqueLearnersMap.set(learner.email, learner))
RECURSIVE uniqueLearnersMap(_)
uniqueLearnersMap(rows) ==
    IF rows = <<>> THEN <<>>
    ELSE mapSet(uniqueLearnersMap(SubSeq(rows, 1, Len(rows) - 1)),
                rows[Len(rows)].email, rows[Len(rows)])

\* ranges whose lower ends repeat the previous upper end
progressRangesOverlapping ==
    << [range |-> "0-20%", min |-> 0, max |-> 20],
       [range |-> "21-40%", min |-> 20, max |-> 40],
       [range |-> "41-60%", min |-> 40, max |-> 60],
       [range |-> "61-80%", min |-> 60, max |-> 80],
       [range |-> "81-100%", min |-> 80, max |-> 100] >>

progressRanges ==
    << [range |-> "0-20%", min |-> 0, max |-> 20],
       [range |-> "21-40%", min |-> 21, max |-> 40],
       [range |-> "41-60%", min |-> 41, max |-> 60],
       [range |-> "61-80%", min |-> 61, max |-> 80],
       [range |-> "81-100%", min |-> 81, max |-> 100] >>

progressDistribution(rows) ==
    LET ls == mapValues(uniqueLearnersMap(rows))
    IN [k \in 1..Len(progressRanges) |->
           LET range == progressRanges[k]
           IN [range |-> range.range,
               count |-> Cardinality({i \in 1..Len(ls) :
                             /\ ls[i].weekPercentage >= range.min
                             /\ ls[i].weekPercentage <= range.max})]]

\* atRiskLearners.some(atRisk => atRisk.email === learner.email)
isAtRiskByEmail(learner, atRisk) == \E i \in 1..Len(atRisk) : atRisk[i].email = learner.email

\* the earlier engine's rule: an at-risk email is counted At Risk whatever its status
statusCategoryAtRiskFirst(learner, atRisk) ==
    LET status == toLowerCase(learner.weekStatus)
    IN IF isAtRiskByEmail(learner, atRisk) THEN "atRisk"
       ELSE IF includes(status, STR_completed) THEN "completed"
       ELSE IF includes(status, STR_not_started) THEN "notStarted"
       ELSE "inProgress"

\* the counter of statusCounts that the forEach body increments for one learner
statusCategory(learner, atRisk) ==
    LET status == toLowerCase(learner.weekStatus)
        isAtRisk == isAtRiskByEmail(learner, atRisk)
    IN IF includes(status, STR_completed) THEN "completed"
       ELSE IF includes(status, STR_not_started) THEN "notStarted"
       ELSE IF includes(status, STR_progress)
            THEN (IF isAtRisk THEN "atRisk" ELSE "inProgress")
       ELSE (IF isAtRisk THEN "atRisk" ELSE "inProgress")

\* the counters filled from every row instead of from each learner's last row
statusCountsOfRows(rows, atRisk) ==
    LET counted(c) == Cardinality({i \in 1..Len(rows) : statusCategory(rows[i], atRisk) = c})
    IN [completed |-> counted("completed"),
        inProgress |-> counted("inProgress"),
        atRisk |-> counted("atRisk"),
        notStarted |-> counted("notStarted")]

\* Array.from(uniqueLearnersMap.values()).forEach(...): the four counters
statusCounts(rows, atRisk) ==
    LET ls == mapValues(uniqueLearnersMap(rows))
        counted(c) == Cardinality({i \in 1..Len(ls) : statusCategory(ls[i], atRisk) = c})
    IN [completed |-> counted("completed"),
        inProgress |-> counted("inProgress"),
        atRisk |-> counted("atRisk"),
        notStarted |-> counted("notStarted")]

\* the four categories without the .filter(item => item.count > 0)
riskDistributionUnfiltered(rows, atRisk) ==
    LET counts == statusCounts(rows, atRisk)
        total == uniqueLearnerCount(rows)
    IN << [name |-> "In Progress", count |-> counts.inProgress,
           percentage |-> roundPercentage(counts.inProgress, total)],
          [name |-> "Completed", count |-> counts.completed,
           percentage |-> roundPercentage(counts.completed, total)],
          [name |-> "At Risk", count |-> counts.atRisk,
           percentage |-> roundPercentage(counts.atRisk, total)],
          [name |-> "Not Started", count |-> counts.notStarted,
           percentage |-> roundPercentage(counts.notStarted, total)] >>

riskDistribution(rows, atRisk) ==
    LET counts == statusCounts(rows, atRisk)
        total == uniqueLearnerCount(rows)
        all == << [name |-> "In Progress", count |-> counts.inProgress,
                   percentage |-> roundPercentage(counts.inProgress, total)],
                  [name |-> "Completed", count |-> counts.completed,
                   percentage |-> roundPercentage(counts.completed, total)],
                  [name |-> "At Risk", count |-> counts.atRisk,
                   percentage |-> roundPercentage(counts.atRisk, total)],
                  [name |-> "Not Started", count |-> counts.notStarted,
                   percentage |-> roundPercentage(counts.notStarted, total)] >>
    IN SelectSeq(all, LAMBDA item : item.count > 0)

\* the number of rows whose lower-cased weekStatus includes sub
statusIncludesCount(rows, sub) ==
    Cardinality({i \in 1..Len(rows) : includes(toLowerCase(rows[i].weekStatus), sub)})

\* the entries in order of first appearance, without the .sort((a, b) => a - b)
weeklyBreakdownUnsorted(rows) ==
    LET weekNumbers == distinctInOrder([i \in 1..Len(rows) |-> rows[i].currentWeek])
    IN [n \in 1..Len(weekNumbers) |->
           LET weekNum == weekNumbers[n]
               weekLearners == SelectSeq(rows, LAMBDA l : l.currentWeek = weekNum)
               weekName == IF weekLearners # <<>> /\ weekLearners[1].currentWeekName # <<>>
                           THEN weekLearners[1].currentWeekName
                           ELSE STR_Week \o numberToString(weekNum)
           IN [weekNumber |-> weekNum,
               weekName |-> weekName,
               learnersCount |-> Len(weekLearners),
               completedCount |-> statusIncludesCount(weekLearners, STR_completed),
               inProgressCount |-> statusIncludesCount(weekLearners, STR_progress),
               notStartedCount |-> statusIncludesCount(weekLearners, STR_not_started)]]

\* one WeeklyProgress entry per distinct currentWeek of rows, ascending
weeklyBreakdown(rows) ==
    LET weekNumbers == sortAscending(distinctInOrder([i \in 1..Len(rows) |-> rows[i].currentWeek]))
    IN [n \in 1..Len(weekNumbers) |->
           LET weekNum == weekNumbers[n]
               weekLearners == SelectSeq(rows, LAMBDA l : l.currentWeek = weekNum)
               weekName == IF weekLearners # <<>> /\ weekLearners[1].currentWeekName # <<>>
                           THEN weekLearners[1].currentWeekName
                           ELSE STR_Week \o numberToString(weekNum)
           IN [weekNumber |-> weekNum,
               weekName |-> weekName,
               learnersCount |-> Len(weekLearners),
               completedCount |-> statusIncludesCount(weekLearners, STR_completed),
               inProgressCount |-> statusIncludesCount(weekLearners, STR_progress),
               notStartedCount |-> statusIncludesCount(weekLearners, STR_not_started)]]

weeklyProgressStats(rows) == weeklyBreakdown(rows)

\* the tally keyed by learner.nextAction as it stands, without .trim()
RECURSIVE nextActionMapUntrimmed(_)
nextActionMapUntrimmed(rows) ==
    IF rows = <<>> THEN <<>>
    ELSE LET m == nextActionMapUntrimmed(SubSeq(rows, 1, Len(rows) - 1))
             action == rows[Len(rows)].nextAction
         IN IF action # <<>>
            THEN mapSet(m, action, (IF mapHas(m, action) THEN mapGet(m, action) ELSE 0) + 1)
            ELSE m

\* data.forEach(learner => { const action = learner.nextAction.trim(); if (action) ... })
RECURSIVE nextActionMap(_)
nextActionMap(rows) ==
    IF rows = <<>> THEN <<>>
    ELSE LET m == nextActionMap(SubSeq(rows, 1, Len(rows) - 1))
             action == trim(rows[Len(rows)].nextAction)
         IN IF action # <<>>
            THEN mapSet(m, action, (IF mapHas(m, action) THEN mapGet(m, action) ELSE 0) + 1)
            ELSE m

\* .sort((a, b) => b.count - a.count), stable
RECURSIVE sortByCount(_)
sortByCount(s) ==
    IF s = <<>> THEN <<>>
    ELSE LET sorted == sortByCount(SubSeq(s, 1, Len(s) - 1))
             x == s[Len(s)]
             p == Cardinality({i \in 1..Len(sorted) : sorted[i].count >= x.count})
         IN SubSeq(sorted, 1, p) \o <<x>> \o SubSeq(sorted, p + 1, Len(sorted))

nextActionStats(rows) ==
    LET m == nextActionMap(rows)
    IN sortByCount([i \in 1..Len(m) |->
           [action |-> m[i].key, count |-> m[i].value,
            percentage |-> roundPercentage(m[i].value, Len(rows))]])

\* Math.max(...values)
mathMax(s) ==
    IF s = <<>> THEN "-Infinity"
    ELSE CHOOSE x \in {s[i] : i \in 1..Len(s)} : \A i \in 1..Len(s) : s[i] <= x

\* totalWeeks decided on the course name as written, without toLowerCase()
courseWeekStatsCaseSensitive(rows, stats) ==
    [n \in 1..Len(stats) |->
        LET course == stats[n]
            courseLearners == SelectSeq(rows, LAMBDA l : l.courseName = course.courseName)
            courseWeeks == sortAscending(distinctInOrder(
                               [i \in 1..Len(courseLearners) |-> courseLearners[i].currentWeek]))
            totalWeeks == IF includes(course.courseName, STR_developer_fundamentals)
                          THEN 10 ELSE 11
        IN [courseName |-> course.courseName,
            currentWeek |-> mathMax(courseWeeks),
            totalWeeks |-> totalWeeks,
            weeklyBreakdown |-> weeklyBreakdown(courseLearners)]]

courseWeekStats(rows, stats) ==
    [n \in 1..Len(stats) |->
        LET course == stats[n]
            courseLearners == SelectSeq(rows, LAMBDA l : l.courseName = course.courseName)
            courseWeeks == sortAscending(distinctInOrder(
                               [i \in 1..Len(courseLearners) |-> courseLearners[i].currentWeek]))
            totalWeeks == IF includes(toLowerCase(course.courseName), STR_developer_fundamentals)
                          THEN 10 ELSE 11
        IN [courseName |-> course.courseName,
            currentWeek |-> mathMax(courseWeeks),
            totalWeeks |-> totalWeeks,
            weeklyBreakdown |-> weeklyBreakdown(courseLearners)]]

\* The object analyzeLearnerData returns. It has no isGracePeriod and no
\* currentWeek property: reading either gives undefined.
analyzeLearnerData(rows, week) ==
    LET currentAnalysisWeek == week
        atRisk == atRiskLearners(rows, currentAnalysisWeek)
        stats == courseStats(rows, atRisk)
    IN [totalLearners |-> uniqueLearnerCount(rows),
        atRiskLearners |-> atRisk,
        courseStats |-> stats,
        progressDistribution |-> progressDistribution(rows),
        riskDistribution |-> riskDistribution(rows, atRisk),
        weeklyProgressStats |-> weeklyProgressStats(rows),
        nextActionStats |-> nextActionStats(rows),
        courseWeekStats |-> courseWeekStats(rows, stats),
        offTrackLearners |-> offTrackLearners(rows, currentAnalysisWeek)]

\* .sort((a, b) => b.weeksBeind - a.weeksBeind) applied to the rows themselves
RECURSIVE sortRowsByWeeksBehind(_, _)
sortRowsByWeeksBehind(rows, week) ==
    IF rows = <<>> THEN <<>>
    ELSE LET sorted == sortRowsByWeeksBehind(SubSeq(rows, 1, Len(rows) - 1), week)
             x == rows[Len(rows)]
             p == Cardinality({i \in 1..Len(sorted) : sorted[i].currentWeek <= x.currentWeek})
         IN SubSeq(sorted, 1, p) \o <<x>> \o SubSeq(sorted, p + 1, Len(sorted))

\* The caller's array once the call has returned. The function only reads data:
\* filter and map return new arrays, the sort orders the array map returned, the
\* at-risk entries are spread copies of the rows, and every Map is local.
dataAfterCall(rows, week) == rows

\* whether reading property f of a JavaScript object gives a value (not undefined)
hasProperty(obj, f) == f \in DOMAIN obj

(***************************************************************************)
(* The file parser (FileUpload.tsx). A row of the file is a function from  *)
(* column headers to cells; an absent cell has no key. Cells of the two    *)
(* numeric columns are tagged: text as the CSV reader and the sheet reader *)
(* give it, or a number as the sheet reader gives for a numeric cell.      *)
(***************************************************************************)
Text(s) == <<"string", s>>
Number(n) == <<"number", n>>

\* whether a JavaScript number is NaN (NaN and the integers are of different kinds)
isNaN(n) == ToString(n) = ToString(NaN)

\* whether a cell of a text column is falsy: the empty string, or the number 0
\* that a sheet can hold in a column whose text is a sequence of characters
isFalsy(cell, empty) ==
    IF ToString(empty) = ToString("") THEN cell = empty
    ELSE cell = <<>> \/ (cell[1] = "number" /\ cell[2] = 0)

\* row[k1] || row[k2] || '' for a text column whose empty string is empty
orEmpty(row, k1, k2, empty) ==
    IF k1 \in DOMAIN row /\ ~isFalsy(row[k1], empty) THEN row[k1]
    ELSE IF k2 \in DOMAIN row /\ ~isFalsy(row[k2], empty) THEN row[k2]
    ELSE empty

\* truthiness of a cell of a numeric column: '' and 0 are falsy
isTruthy(cell) ==
    IF cell[1] = "number" THEN cell[2] # 0 ELSE cell[2] # <<>>

\* row[k1] || row[k2] || '0'
orZero(row, k1, k2) ==
    IF k1 \in DOMAIN row /\ isTruthy(row[k1]) THEN row[k1]
    ELSE IF k2 \in DOMAIN row /\ isTruthy(row[k2]) THEN row[k2]
    ELSE Text(<<"0">>)

\* ToString of a cell: the text itself, or the decimal digits of a natural number
cellToString(cell) ==
    IF cell[1] = "number" THEN numberToString(cell[2]) ELSE cell[2]

\* the text without its leading white space
RECURSIVE trimStart(_)
trimStart(s) ==
    IF s # <<>> /\ isWhitespace(s[1]) THEN trimStart(Tail(s)) ELSE s

\* the longest prefix of s made of decimal digits
RECURSIVE digitPrefix(_)
digitPrefix(s) ==
    IF s # <<>> /\ s[1] \in {Digits[i] : i \in 1..10}
    THEN <<s[1]>> \o digitPrefix(Tail(s))
    ELSE <<>>

\* the natural number a non-empty sequence of digits denotes
RECURSIVE digitsValue(_)
digitsValue(ds) ==
    IF ds = <<>> THEN 0
    ELSE 10 * digitsValue(SubSeq(ds, 1, Len(ds) - 1))
         + (CHOOSE d \in 0..9 : Digits[d + 1] = ds[Len(ds)])

\* parseInt(text): leading white space skipped, an optional sign, then the
\* digits up to the first other character; NaN when there is no digit
parseInt(s) ==
    LET t == trimStart(s)
        negative == t # <<>> /\ t[1] = "-"
        body == IF t # <<>> /\ t[1] \in {"-", "+"} THEN Tail(t) ELSE t
        ds == digitPrefix(body)
    IN IF ds = <<>> THEN NaN
       ELSE IF negative THEN 0 - digitsValue(ds) ELSE digitsValue(ds)

\* parseFloat(text) for texts without a fraction or an exponent: as parseInt
parseFloat(s) == parseInt(s)

\* String.prototype.replace('%', ''): the first "%" removed
RECURSIVE replacePercent(_)
replacePercent(s) ==
    IF s = <<>> THEN <<>>
    ELSE IF s[1] = "%" THEN Tail(s)
    ELSE <<s[1]>> \o replacePercent(Tail(s))

\* the object the parsers build from one row of the file
toLearnerData(row) ==
    [email |-> orEmpty(row, "Email", "email", ""),
     courseName |-> orEmpty(row, "Course Name", "courseName", <<>>),
     currentWeek |-> parseInt(cellToString(orZero(row, "Current Week", "currentWeek"))),
     currentWeekName |-> orEmpty(row, "Current Week Name", "currentWeekName", <<>>),
     weekStatus |-> orEmpty(row, "Week Status", "weekStatus", <<>>),
     currentWeekProgress |-> orEmpty(row, "Current Week Progress", "currentWeekProgress", ""),
     weekPercentage |-> parseFloat(replacePercent(cellToString(
                            orZero(row, "Week Percentage", "weekPercentage")))),
     lastActivity |-> orEmpty(row, "Last Activity", "lastActivity", ""),
     lastCompletedModule |-> orEmpty(row, "Last Completed Module", "lastCompletedModule", ""),
     nextAction |-> orEmpty(row, "Next Action", "nextAction", <<>>)]

\* results.data.map(...) without the .filter(item => item.email)
parseCSVUnfiltered(rows) == [i \in 1..Len(rows) |-> toLearnerData(rows[i])]

\* results.data.map(row => ({...})).filter(item => item.email)
parseCSV(rows) ==
    SelectSeq([i \in 1..Len(rows) |-> toLearnerData(rows[i])], LAMBDA item : item.email # "")

\* jsonData.map((row: any) => ({...})).filter(item => item.email)
parseExcel(rows) ==
    SelectSeq([i \in 1..Len(rows) |-> toLearnerData(rows[i])], LAMBDA item : item.email # "")

(***************************************************************************)
(* Inputs: LearnerData rows as the file parser hands them on.              *)
(***************************************************************************)
StatusCompleted == <<"C", "o", "m", "p", "l", "e", "t", "e", "d">>
StatusInProgress == <<"I", "n", " ", "P", "r", "o", "g", "r", "e", "s", "s">>
StatusNotStarted == <<"N", "o", "t", " ", "S", "t", "a", "r", "t", "e", "d">>
StatusMixed == <<"N", "o", "t", " ", "S", "t", "a", "r", "t", "e", "d", " ", "-", " ",
                 "n", "o", " ", "p", "r", "o", "g", "r", "e", "s", "s">>
StatusPaused == <<"P", "a", "u", "s", "e", "d">>

ActionMoveToWeek3 == <<"M", "o", "v", "e", " ", "t", "o", " ", "W", "e", "e", "k", " ", "3">>
ActionMoveToNext == <<"M", "O", "V", "E", " ", "T", "O", " ", "N", "E", "X", "T">>
ActionReview == <<"R", "e", "v", "i", "e", "w">>
ActionNone == <<>>

CourseDataFoundations == <<"D", "a", "t", "a", " ", "F", "o", "u", "n", "d", "a", "t", "i", "o", "n", "s">>
CourseDeveloperFundamentals == <<"D", "e", "v", "e", "l", "o", "p", "e", "r", " ",
                                 "F", "u", "n", "d", "a", "m", "e", "n", "t", "a", "l", "s">>

WeekNameIntro == <<"I", "n", "t", "r", "o">>

EmailA == "a@example.com"
EmailB == "b@example.com"

LearnerData(email, courseName, week, weekStatus, weekPercentage, nextAction) ==
    [email |-> email,
     courseName |-> courseName,
     currentWeek |-> week,
     currentWeekName |-> WeekNameIntro,
     weekStatus |-> weekStatus,
     currentWeekProgress |-> "2/5 modules",
     weekPercentage |-> weekPercentage,
     lastActivity |-> "10-Jul-25",
     lastCompletedModule |-> "Module 1",
     nextAction |-> nextAction]

SeqsUpTo(S, n) == UNION {[1..k -> S] : k \in 0..n}

\* rows that differ in learner and week reached
RowsByWeek ==
    {LearnerData(e, CourseDataFoundations, w, StatusInProgress, 50, ActionReview) :
        e \in {EmailA, EmailB}, w \in 1..5}

\* rows that differ in week reached and next action
RowsByAction ==
    {LearnerData(EmailA, CourseDataFoundations, w, StatusInProgress, 50, a) :
        w \in {1, 2, 5}, a \in {ActionMoveToWeek3, ActionMoveToNext, ActionReview, ActionNone}}

\* (week reached, status, percentage) of the rows used for deduplication
Snapshots ==
    { <<5, StatusInProgress, 50>>, <<3, StatusCompleted, 100>>, <<4, StatusNotStarted, 0>> }

\* rows that differ in learner, course and snapshot
RowsByCourse ==
    {LearnerData(e, c, sn[1], sn[2], sn[3], ActionReview) :
        e \in {EmailA, EmailB},
        c \in {CourseDataFoundations, CourseDeveloperFundamentals},
        sn \in Snapshots}

\* (status text, week reached) of the rows used for status bucketing
StatusSnapshots ==
    { <<StatusCompleted, 3>>, <<StatusNotStarted, 3>>, <<StatusInProgress, 3>>,
      <<StatusInProgress, 5>>, <<StatusPaused, 3>>, <<StatusMixed, 3>> }

\* rows that differ in learner, status text and week reached
RowsByStatus ==
    {LearnerData(e, CourseDataFoundations, sn[2], sn[1], 50, ActionReview) :
        e \in {EmailA, EmailB}, sn \in StatusSnapshots}

(***************************************************************************)
(* The state machine: one call of analyzeLearnerData.                      *)
(***************************************************************************)
\* no file has been chosen: the function is called on rows directly
NoFile == [extension |-> "", rows |-> <<>>]

\* the value null of analysisResult
Null == [null |-> TRUE]

\* the state of the App component after construction (the useState initial values)
AppInitial ==
    [learnerData |-> <<>>,
     originalData |-> <<>>,
     availableCourses |-> <<>>,
     currentCourse |-> <<>>,
     currentWeek |-> 1,
     analysisResult |-> Null,
     allCoursesOverview |-> <<>>,
     activeTab |-> "upload",
     isProcessing |-> FALSE]

\* the state of the AIInsights component after construction, before its effects run
ChatInitial == [messages |-> <<>>, inputValue |-> <<>>, isTyping |-> FALSE]

Pending == "pending"

InitWith(rowSet, weeks) ==
    /\ data \in SeqsUpTo(rowSet, MaxRows)
    /\ currentWeek \in weeks
    /\ result = Pending
    /\ pc = "call"
    /\ file = NoFile
    /\ uploadedData = <<>>
    /\ app = AppInitial
    /\ chat = ChatInitial
    /\ timers = <<>>

Init == InitWith(RowsByWeek, {3, 4, 5})

InitOffTrack == InitWith(RowsByAction, {3, 5})

InitDedup == InitWith(RowsByCourse, {6, 8})

InitStatus == InitWith(RowsByStatus, {5})

\* the call runs to completion (the body has no await) and resolves the promise
Analyze ==
    /\ pc \in {"call", "recall"}
    /\ result' = analyzeLearnerData(data, currentWeek)
    /\ data' = dataAfterCall(data, currentWeek)
    /\ pc' = "returned"
    /\ UNCHANGED <<currentWeek, file, uploadedData, app, chat, timers>>

\* the caller invokes the function again on the list and week it still holds;
\* the value of the earlier call stays in result until the new call returns
CallAgain ==
    /\ pc = "returned"
    /\ pc' = "recall"
    /\ UNCHANGED <<data, currentWeek, result, file, uploadedData, app, chat, timers>>

Next == Analyze

Spec == Init /\ [][Next]_vars

SpecOffTrack == InitOffTrack /\ [][Next]_vars

SpecDedup == InitDedup /\ [][Next]_vars

SpecStatus == InitStatus /\ [][Next]_vars

Returned == pc = "returned"

(***************************************************************************)
(* Vocabulary of the properties, stated on the input rows themselves.      *)
(***************************************************************************)
\* an at-risk entry without the two fields the engine adds
Strip(entry) == [f \in (DOMAIN entry) \ {"weeksBeind", "riskLevel"} |-> entry[f]]

Indices(s) == 1..Len(s)

Emails == {data[i].email : i \in Indices(data)}

Courses == {data[i].courseName : i \in Indices(data)}

LastIndex(S) == CHOOSE i \in S : \A j \in S : j <= i

\* the last row of a learner, and the last row of a learner within a course
LastRowByEmail(e) == data[LastIndex({i \in Indices(data) : data[i].email = e})]

LastRowInCourse(e, c) ==
    data[LastIndex({i \in Indices(data) : data[i].email = e /\ data[i].courseName = c})]

EmailsOfCourse(c) == {data[i].email : i \in {j \in Indices(data) : data[j].courseName = c}}

WeeksBehind(row) == currentWeek - row.currentWeek

\* the sample next actions that, lower-cased, contain "move to week" or "move to next"
ReadyActions == {ActionMoveToWeek3, ActionMoveToNext}

\* the bucket of each sample status under the ordered first-match rule
\* completed, progress, not started, else In Progress
BucketOf(status) ==
    CASE status = StatusCompleted -> "Completed"
      [] status = StatusInProgress -> "In Progress"
      [] status = StatusNotStarted -> "Not Started"
      [] status = StatusMixed -> "In Progress"
      [] status = StatusPaused -> "In Progress"

\* the count riskDistribution reports for a category, 0 when the entry is dropped
RiskCount(name) ==
    LET rd == result.riskDistribution
        hit == {i \in Indices(rd) : rd[i].name = name}
    IN IF hit = {} THEN 0 ELSE rd[CHOOSE i \in hit : TRUE].count

AtRiskEmails == {result.atRiskLearners[i].email : i \in Indices(result.atRiskLearners)}

C3_OffTrackSubsequence ==
    Returned =>
        result.offTrackLearners =
            SelectSeq(data, LAMBDA row :
                row.currentWeek < currentWeek /\ row.nextAction \notin ReadyActions)

\* with W = 5: a row 4 weeks behind is kept, a row at week 2 with "Move to Week 3"
\* and a behind row with "MOVE TO NEXT" are dropped
C3_Witness ==
    /\ Returned
    /\ currentWeek = 5
    /\ Len(data) = 3
    /\ data[1].currentWeek = 2 /\ data[1].nextAction = ActionMoveToWeek3
    /\ data[2].currentWeek = 1 /\ data[2].nextAction = ActionReview
    /\ data[3].currentWeek = 1 /\ data[3].nextAction = ActionMoveToNext
    /\ result.offTrackLearners = <<data[2]>>

\* C4: atRiskLearners is in descending weeksBeind order, and the entries of
\* one weeksBeind value are in the order of their rows in the input.
C4_SortedDescendingStable ==
    Returned =>
        LET ar == result.atRiskLearners
        IN /\ \A i, j \in Indices(ar) : i < j => ar[i].weeksBeind >= ar[j].weeksBeind
           /\ \A k \in 1..3 :
                 LET ofK == SelectSeq(ar, LAMBDA e : e.weeksBeind = k)
                 IN [i \in Indices(ofK) |-> Strip(ofK[i])]
                      = SelectSeq(data, LAMBDA row : WeeksBehind(row) = k)

\* two different rows equally behind, followed in the input by a row further behind
C4_Witness ==
    /\ Returned
    /\ Len(data) = 3
    /\ data[1] # data[2]
    /\ WeeksBehind(data[1]) = 1 /\ WeeksBehind(data[2]) = 1
    /\ WeeksBehind(data[3]) = 3
    /\ Len(result.atRiskLearners) = 3
    /\ Strip(result.atRiskLearners[1]) = data[3]

\* C5: the returned AnalysisResult has isGracePeriod = (W < 4) and currentWeek = W.
C5_GracePeriodFlag ==
    Returned =>
        /\ hasProperty(result, "isGracePeriod")
        /\ result.isGracePeriod = (currentWeek < 4)
        /\ hasProperty(result, "currentWeek")
        /\ result.currentWeek = currentWeek

(***************************************************************************)
(* Deduplication and course statistics                                     *)
(***************************************************************************)
\* the rows of the end-to-end scenario: A at week 5, B at week 3, B again at week 4
EndToEndRows ==
    << LearnerData(EmailA, CourseDataFoundations, 5, StatusInProgress, 50, ActionReview),
       LearnerData(EmailB, CourseDataFoundations, 3, StatusCompleted, 100, ActionReview),
       LearnerData(EmailB, CourseDataFoundations, 4, StatusNotStarted, 0, ActionReview) >>

\* C6: for the end-to-end rows and W = 6 there are 2 unique learners, A is at
\* risk with weeksBeind 1 (Low), B is at risk with weeksBeind 2 (Medium) and
\* with no other classification, and the course has totalLearners 2, atRisk 2.
C6_LastRowDecidesAtRisk ==
    (Returned /\ data = EndToEndRows /\ currentWeek = 6) =>
        LET ar == result.atRiskLearners
        IN /\ result.totalLearners = 2
           /\ \E i \in Indices(ar) :
                 ar[i].email = EmailA /\ ar[i].weeksBeind = 1 /\ ar[i].riskLevel = "Low"
           /\ \E i \in Indices(ar) :
                 ar[i].email = EmailB /\ ar[i].weeksBeind = 2 /\ ar[i].riskLevel = "Medium"
           /\ \A i \in Indices(ar) :
                 ar[i].email = EmailB => ar[i].weeksBeind = 2 /\ ar[i].riskLevel = "Medium"
           /\ result.courseStats[1].totalLearners = 2
           /\ result.courseStats[1].atRisk = 2

\* C7: deduplication is last-write-wins. totalLearners is the number of
\* distinct emails; a course's totalLearners is the number of distinct emails
\* of its rows and its status counts are those of each learner's last row in
\* the course; the progress and status distributions use each learner's last row.
C7_LastWriteWins ==
    Returned =>
        LET cs == result.courseStats
            pd == result.progressDistribution
            lastBucket(e) == BucketOf(LastRowByEmail(e).weekStatus)
        IN /\ result.totalLearners = Cardinality(Emails)
           /\ Len(cs) = Cardinality(Courses)
           /\ \A i \in Indices(cs) :
                 LET c == cs[i].courseName
                     inBucket(b) == {e \in EmailsOfCourse(c) :
                                        BucketOf(LastRowInCourse(e, c).weekStatus) = b}
                 IN /\ c \in Courses
                    /\ cs[i].totalLearners = Cardinality(EmailsOfCourse(c))
                    /\ cs[i].completed = Cardinality(inBucket("Completed"))
                    /\ cs[i].inProgress = Cardinality(inBucket("In Progress"))
                    /\ cs[i].notStarted = Cardinality(inBucket("Not Started"))
           /\ \A k \in Indices(pd) :
                 pd[k].count = Cardinality({e \in Emails :
                     /\ LastRowByEmail(e).weekPercentage >= progressRanges[k].min
                     /\ LastRowByEmail(e).weekPercentage <= progressRanges[k].max})
           /\ RiskCount("Completed") = Cardinality({e \in Emails : lastBucket(e) = "Completed"})
           /\ RiskCount("Not Started") = Cardinality({e \in Emails : lastBucket(e) = "Not Started"})
           /\ RiskCount("In Progress") + RiskCount("At Risk")
                = Cardinality({e \in Emails : lastBucket(e) = "In Progress"})

\* one learner with two different rows in one course and a third, different row in
\* another course
C7_Witness ==
    /\ Returned
    /\ Len(data) = 3
    /\ data[1].email = data[2].email /\ data[2].email = data[3].email
    /\ data[1].courseName = data[3].courseName
    /\ data[2].courseName # data[1].courseName
    /\ data[1].weekStatus = StatusCompleted
    /\ data[2].weekStatus = StatusInProgress
    /\ data[3].weekStatus = StatusNotStarted
    /\ result.totalLearners = 1
    /\ Len(result.courseStats) = 2
    /\ result.courseStats[1].notStarted = 1

\* C8: a course's atRisk counts the learners whose last row in the course is
\* 1 to 3 weeks behind; rows superseded by a later row of the same learner
\* and course do not change it.
C8_CourseAtRiskFromLastRow ==
    Returned =>
        \A i \in Indices(result.courseStats) :
            LET c == result.courseStats[i].courseName
            IN result.courseStats[i].atRisk =
                   Cardinality({e \in EmailsOfCourse(c) :
                       /\ WeeksBehind(LastRowInCourse(e, c)) >= 1
                       /\ WeeksBehind(LastRowInCourse(e, c)) <= 3})

(***************************************************************************)
(* Status bucketing                                                        *)
(***************************************************************************)
\* C9: the course statistics and the status distribution bucket every status
\* by the same ordered rule (completed, progress, not started, else In
\* Progress); a status holding both "progress" and "not started" is In
\* Progress in both.
C9_OneBucketingRule ==
    (Returned /\ Courses = {CourseDataFoundations}) =>
        LET cs == result.courseStats[1]
            inBucket(b) == {e \in Emails : BucketOf(LastRowByEmail(e).weekStatus) = b}
        IN /\ cs.completed = Cardinality(inBucket("Completed"))
           /\ cs.inProgress = Cardinality(inBucket("In Progress"))
           /\ cs.notStarted = Cardinality(inBucket("Not Started"))
           /\ RiskCount("Completed") = Cardinality(inBucket("Completed"))
           /\ RiskCount("Not Started") = Cardinality(inBucket("Not Started"))
           /\ RiskCount("In Progress") + RiskCount("At Risk")
                = Cardinality(inBucket("In Progress"))

\* C10: in the status distribution a learner whose last row buckets as
\* Completed or Not Started is never counted At Risk; the learners counted At
\* Risk are In Progress learners whose email has an at-risk entry.
C10_AtRiskOnlyOverridesInProgress ==
    Returned =>
        LET ar == result.atRiskLearners
            category(e) == statusCategory(LastRowByEmail(e), ar)
            bucket(e) == BucketOf(LastRowByEmail(e).weekStatus)
        IN /\ \A e \in Emails :
                 /\ bucket(e) \in {"Completed", "Not Started"} => category(e) # "atRisk"
                 /\ category(e) = "atRisk" => bucket(e) = "In Progress" /\ e \in AtRiskEmails
           /\ RiskCount("At Risk") = Cardinality({e \in Emails : category(e) = "atRisk"})
           /\ RiskCount("At Risk") <= Cardinality({e \in Emails :
                                          bucket(e) = "In Progress" /\ e \in AtRiskEmails})
           /\ RiskCount("Completed") = Cardinality({e \in Emails : bucket(e) = "Completed"})
           /\ RiskCount("Not Started") >= Cardinality({e \in Emails : bucket(e) = "Not Started"})

\* a learner with an at-risk row whose last row is Completed, next to an In Progress
\* learner who is at risk
C10_Witness ==
    /\ Returned
    /\ Len(data) = 3
    /\ data[1].email = EmailA /\ data[1].weekStatus = StatusInProgress /\ WeeksBehind(data[1]) = 2
    /\ data[2].email = EmailA /\ data[2].weekStatus = StatusCompleted /\ WeeksBehind(data[2]) = 2
    /\ data[3].email = EmailB /\ data[3].weekStatus = StatusInProgress /\ WeeksBehind(data[3]) = 2
    /\ EmailA \in AtRiskEmails
    /\ RiskCount("At Risk") = 1
    /\ RiskCount("Completed") = 1

(***************************************************************************)
(* Progress distribution                                                   *)
(***************************************************************************)
\* rows that differ in learner and week percentage, at the edges of the ranges
RowsByPercentage ==
    {LearnerData(EmailA, CourseDataFoundations, 3, StatusInProgress, p, ActionReview) :
        p \in {0, 20, 21, 40, 41, 60}}
    \cup
    {LearnerData(EmailB, CourseDataFoundations, 3, StatusInProgress, p, ActionReview) :
        p \in {60, 61, 80, 81, 100}}

InitProgress == InitWith(RowsByPercentage, {5})

SpecProgress == InitProgress /\ [][Next]_vars

\* the position of the range an integer percentage of 0..100 belongs to
RangeIndex(p) ==
    IF p <= 20 THEN 1 ELSE IF p <= 40 THEN 2 ELSE IF p <= 60 THEN 3 ELSE IF p <= 80 THEN 4 ELSE 5

\* C11: progressDistribution has the five entries 0-20%, 21-40%, 41-60%,
\* 61-80%, 81-100% in that order; each count is the number of learners whose
\* last row has its percentage in the range, so no learner is counted twice
\* and the counts sum to totalLearners.
C11_FiveDisjointRanges ==
    Returned =>
        LET pd == result.progressDistribution
        IN /\ [k \in Indices(pd) |-> pd[k].range] = <<"0-20%", "21-40%", "41-60%", "61-80%", "81-100%">>
           /\ \A k \in 1..5 :
                 pd[k].count = Cardinality({e \in Emails :
                                   RangeIndex(LastRowByEmail(e).weekPercentage) = k})
           /\ pd[1].count + pd[2].count + pd[3].count + pd[4].count + pd[5].count
                = result.totalLearners

\* a learner first at 20% and last at 21%, and a learner at 60%: one in the second
\* range, one in the third, the other ranges kept with count 0
C11_Witness ==
    /\ Returned
    /\ Len(data) = 3
    /\ data[1].email = EmailA /\ data[1].weekPercentage = 20
    /\ data[2].email = EmailA /\ data[2].weekPercentage = 21
    /\ data[3].email = EmailB /\ data[3].weekPercentage = 60
    /\ [k \in 1..5 |-> result.progressDistribution[k].count] = <<0, 1, 1, 0, 0>>

(***************************************************************************)
(* Status distribution                                                     *)
(***************************************************************************)
EmailC == "c@example.com"

\* (status text, week reached) of the rows used for the status distribution
RiskSnapshots ==
    { <<StatusCompleted, 3>>, <<StatusNotStarted, 3>>, <<StatusInProgress, 3>>,
      <<StatusInProgress, 5>> }

\* rows of three learners that differ in status text and week reached
RowsByLearner ==
    {LearnerData(e, CourseDataFoundations, sn[2], sn[1], 50, ActionReview) :
        e \in {EmailA, EmailB, EmailC}, sn \in RiskSnapshots}

InitRisk == InitWith(RowsByLearner, {5})

SpecRisk == InitRisk /\ [][Next]_vars

RiskNames == <<"In Progress", "Completed", "At Risk", "Not Started">>

\* the learners of a category: Completed and Not Started by the status of the last
\* row, the In Progress ones split by whether the email has an at-risk entry
LearnersOf(name) ==
    LET bucket(e) == BucketOf(LastRowByEmail(e).weekStatus)
    IN CASE name = "Completed" -> {e \in Emails : bucket(e) = "Completed"}
         [] name = "Not Started" -> {e \in Emails : bucket(e) = "Not Started"}
         [] name = "At Risk" -> {e \in Emails : bucket(e) = "In Progress" /\ e \in AtRiskEmails}
         [] name = "In Progress" -> {e \in Emails : bucket(e) = "In Progress" /\ e \notin AtRiskEmails}

\* p is x = 100 * count / total rounded to the nearest integer, halves up
IsRounded(p, cnt, total) ==
    /\ p \in Nat
    /\ 2 * p * total <= 200 * cnt + total
    /\ 200 * cnt + total < 2 * (p + 1) * total

\* C12: riskDistribution lists, in the order In Progress, Completed, At Risk,
\* Not Started, exactly the categories that have learners, each with its count
\* and with percentage = round(count / number of distinct emails * 100).
C12_RiskDistributionEntries ==
    Returned =>
        LET rd == result.riskDistribution
            present == SelectSeq(RiskNames, LAMBDA n : LearnersOf(n) # {})
        IN /\ [i \in Indices(rd) |-> rd[i].name] = present
           /\ \A i \in Indices(rd) :
                 /\ rd[i].count = Cardinality(LearnersOf(rd[i].name))
                 /\ rd[i].count > 0
                 /\ IsRounded(rd[i].percentage, rd[i].count, Cardinality(Emails))

\* three learners: two at risk, one completed; At Risk is 67 percent, Completed 33
C12_Witness ==
    /\ Returned
    /\ Cardinality(Emails) = 3
    /\ Len(result.riskDistribution) = 2
    /\ result.riskDistribution[1] = [name |-> "Completed", count |-> 1, percentage |-> 33]
    /\ result.riskDistribution[2] = [name |-> "At Risk", count |-> 2, percentage |-> 67]

(***************************************************************************)
(* Empty input                                                             *)
(***************************************************************************)
ZeroBuckets ==
    << [range |-> "0-20%", count |-> 0], [range |-> "21-40%", count |-> 0],
       [range |-> "41-60%", count |-> 0], [range |-> "61-80%", count |-> 0],
       [range |-> "81-100%", count |-> 0] >>

\* every percentage the result carries
Percentages ==
    {result.riskDistribution[i].percentage : i \in Indices(result.riskDistribution)}
    \cup {result.nextActionStats[i].percentage : i \in Indices(result.nextActionStats)}

\* C13: for the empty row list the call returns totalLearners = 0, every list
\* empty and five progress buckets of count 0; and for every input each
\* percentage of the result is a number between 0 and 100 (not NaN, not infinite).
C13_EmptyInputAndFinitePercentages ==
    Returned =>
        /\ data = <<>> =>
              /\ result.totalLearners = 0
              /\ result.atRiskLearners = <<>>
              /\ result.offTrackLearners = <<>>
              /\ result.courseStats = <<>>
              /\ result.riskDistribution = <<>>
              /\ result.weeklyProgressStats = <<>>
              /\ result.nextActionStats = <<>>
              /\ result.courseWeekStats = <<>>
              /\ result.progressDistribution = ZeroBuckets
        /\ \A p \in Percentages : p \in 0..100

\* the call on the empty row list has returned
C13_Witness ==
    /\ Returned
    /\ data = <<>>
    /\ currentWeek = 5
    /\ result.totalLearners = 0
    /\ result.progressDistribution = ZeroBuckets

(***************************************************************************)
(* Weekly progress                                                         *)
(***************************************************************************)
WeekNameCloud == <<"C", "l", "o", "u", "d">>
WeekNameEmpty == <<>>

\* rows that differ in learner, week reached and the name of that week
RowsByWeekName ==
    {[LearnerData(e, CourseDataFoundations, w, StatusInProgress, 50, ActionReview)
         EXCEPT !.currentWeekName = n] :
        e \in {EmailA, EmailB}, w \in {3, 11}, n \in {WeekNameIntro, WeekNameCloud, WeekNameEmpty}}

InitWeekly == InitWith(RowsByWeekName, {5})

SpecWeekly == InitWeekly /\ [][Next]_vars

\* the first input row with the given currentWeek
FirstRowOfWeek(n) ==
    data[CHOOSE i \in Indices(data) :
            /\ data[i].currentWeek = n
            /\ \A j \in Indices(data) : data[j].currentWeek = n => i <= j]

\* the text "Week <n>" for the weeks of the rows
WeekLabel(n) ==
    CASE n = 3 -> <<"W", "e", "e", "k", " ", "3">>
      [] n = 11 -> <<"W", "e", "e", "k", " ", "1", "1">>

\* one entry per distinct currentWeek, strictly ascending, counting every row
WeeklyEntriesPerWeek ==
    LET ws == result.weeklyProgressStats
    IN /\ {ws[i].weekNumber : i \in Indices(ws)} = {data[k].currentWeek : k \in Indices(data)}
       /\ \A i, j \in Indices(ws) : i < j => ws[i].weekNumber < ws[j].weekNumber
       /\ \A i \in Indices(ws) :
             ws[i].learnersCount =
                Cardinality({k \in Indices(data) : data[k].currentWeek = ws[i].weekNumber})

\* C14 (as stated): weeklyProgressStats has one entry per distinct currentWeek,
\* strictly ascending, learnersCount counts every row of the week, and weekName
\* is the currentWeekName of the first row of the week.
C14_WeekNameOfFirstRow ==
    Returned =>
        /\ WeeklyEntriesPerWeek
        /\ \A i \in Indices(result.weeklyProgressStats) :
              LET e == result.weeklyProgressStats[i]
              IN e.weekName = FirstRowOfWeek(e.weekNumber).currentWeekName

\* C14 (amended): as above, except that weekName is "Week <weekNumber>" when
\* the currentWeekName of the first row of the week is empty.
C14_WeekNameOrLabel ==
    Returned =>
        /\ WeeklyEntriesPerWeek
        /\ \A i \in Indices(result.weeklyProgressStats) :
              LET e == result.weeklyProgressStats[i]
                  first == FirstRowOfWeek(e.weekNumber).currentWeekName
              IN e.weekName = IF first = WeekNameEmpty THEN WeekLabel(e.weekNumber) ELSE first

\* week 11 comes first in the input and its first row has no week name; week 3
\* has two rows and takes the name of the first
C14_Witness ==
    /\ Returned
    /\ Len(data) = 3
    /\ data[1].currentWeek = 11 /\ data[1].currentWeekName = WeekNameEmpty
    /\ data[2].currentWeek = 3 /\ data[2].currentWeekName = WeekNameCloud
    /\ data[3].currentWeek = 3 /\ data[3].currentWeekName = WeekNameIntro
    /\ data[2].email = data[3].email
    /\ Len(result.weeklyProgressStats) = 2
    /\ result.weeklyProgressStats[1].weekName = WeekNameCloud
    /\ result.weeklyProgressStats[1].learnersCount = 2
    /\ result.weeklyProgressStats[2].weekName = WeekLabel(11)

(***************************************************************************)
(* Next actions                                                            *)
(***************************************************************************)
ActionReviewPadded == <<" ", "R", "e", "v", "i", "e", "w", " ">>
ActionMoveToWeek3Padded ==
    <<" ", " ", "M", "o", "v", "e", " ", "t", "o", " ", "W", "e", "e", "k", " ", "3">>
ActionBlank == <<" ", " ">>

\* rows that differ in learner and in the text of nextAction
RowsByNextAction ==
    {LearnerData(e, CourseDataFoundations, 3, StatusInProgress, 50, a) :
        e \in {EmailA, EmailB},
        a \in {ActionReview, ActionReviewPadded, ActionMoveToWeek3,
               ActionMoveToWeek3Padded, ActionBlank, ActionNone}}

InitActions == InitWith(RowsByNextAction, {5})

SpecActions == InitActions /\ [][Next]_vars

\* the nextAction texts of the rows without their surrounding white space
TrimmedAction(a) ==
    CASE a \in {ActionReview, ActionReviewPadded} -> ActionReview
      [] a \in {ActionMoveToWeek3, ActionMoveToWeek3Padded} -> ActionMoveToWeek3
      [] a \in {ActionBlank, ActionNone} -> <<>>

\* C15: nextActionStats has exactly one entry per distinct non-empty trimmed
\* nextAction; count is the number of rows with that trimmed nextAction,
\* percentage is round(count / number of all rows * 100), rows with an empty
\* nextAction included in the denominator; entries are ordered by count descending.
C15_NextActionEntries ==
    Returned =>
        LET ns == result.nextActionStats
            rowsOf(a) == {k \in Indices(data) : TrimmedAction(data[k].nextAction) = a}
        IN /\ {ns[i].action : i \in Indices(ns)} =
                 {TrimmedAction(data[k].nextAction) : k \in Indices(data)} \ {<<>>}
           /\ \A i, j \in Indices(ns) : i # j => ns[i].action # ns[j].action
           /\ \A i \in Indices(ns) :
                 /\ ns[i].count = Cardinality(rowsOf(ns[i].action))
                 /\ IsRounded(ns[i].percentage, ns[i].count, Len(data))
           /\ \A i, j \in Indices(ns) : i < j => ns[i].count >= ns[j].count

\* a padded and a plain "Review" are one entry of count 2, and the row without
\* an action stays in the denominator: 2 of 3 rows is 67 percent
C15_Witness ==
    /\ Returned
    /\ Len(data) = 3
    /\ data[1].nextAction = ActionReviewPadded
    /\ data[2].nextAction = ActionNone
    /\ data[3].nextAction = ActionReview
    /\ result.nextActionStats = << [action |-> ActionReview, count |-> 2, percentage |-> 67] >>

(***************************************************************************)
(* Course week statistics                                                  *)
(***************************************************************************)
CourseDeveloperFundamentalsUpper ==
    <<"A", "W", "S", " ", "D", "E", "V", "E", "L", "O", "P", "E", "R", " ",
      "F", "U", "N", "D", "A", "M", "E", "N", "T", "A", "L", "S">>

\* rows that differ in learner, course name and week reached
RowsByCourseName ==
    {LearnerData(e, c, w, StatusInProgress, 50, ActionReview) :
        e \in {EmailA, EmailB},
        c \in {CourseDataFoundations, CourseDeveloperFundamentals,
               CourseDeveloperFundamentalsUpper},
        w \in {2, 7}}

InitCourseWeeks == InitWith(RowsByCourseName, {1, 9})

SpecCourseWeeks == InitCourseWeeks /\ [][Next]_vars

\* the input positions of the rows of a course
RowsOfCourse(c) == {k \in Indices(data) : data[k].courseName = c}

\* the length of a course by its name
TotalWeeksOf(c) ==
    IF c \in {CourseDeveloperFundamentals, CourseDeveloperFundamentalsUpper} THEN 10 ELSE 11

\* C16: courseWeekStats has one entry per course in courseStats order; totalWeeks
\* is 10 for a name that contains "developer fundamentals" in any letter case and
\* 11 otherwise; currentWeek is the largest currentWeek among the rows of the
\* course, whatever W is; weeklyBreakdown covers the rows of that course only.
C16_CourseWeekEntries ==
    Returned =>
        LET cw == result.courseWeekStats
            cs == result.courseStats
        IN /\ [i \in Indices(cw) |-> cw[i].courseName] = [i \in Indices(cs) |-> cs[i].courseName]
           /\ \A i \in Indices(cw) :
                 LET mine == RowsOfCourse(cw[i].courseName)
                     wb == cw[i].weeklyBreakdown
                 IN /\ cw[i].totalWeeks = TotalWeeksOf(cw[i].courseName)
                    /\ \E k \in mine : data[k].currentWeek = cw[i].currentWeek
                    /\ \A k \in mine : data[k].currentWeek <= cw[i].currentWeek
                    /\ {wb[n].weekNumber : n \in Indices(wb)} = {data[k].currentWeek : k \in mine}
                    /\ \A m, n \in Indices(wb) : m < n => wb[m].weekNumber < wb[n].weekNumber
                    /\ \A n \in Indices(wb) :
                          /\ wb[n].learnersCount =
                                Cardinality({k \in mine : data[k].currentWeek = wb[n].weekNumber})
                          /\ wb[n].inProgressCount = wb[n].learnersCount
                          /\ wb[n].completedCount = 0
                          /\ wb[n].notStartedCount = 0

\* W is 1; the upper-case ten-week course has rows at weeks 7 and 2, the
\* eleven-week course one row at week 2
C16_Witness ==
    /\ Returned
    /\ currentWeek = 1
    /\ Len(data) = 3
    /\ data[1].courseName = CourseDeveloperFundamentalsUpper /\ data[1].currentWeek = 7
    /\ data[2].courseName = CourseDataFoundations /\ data[2].currentWeek = 2
    /\ data[3].courseName = CourseDeveloperFundamentalsUpper /\ data[3].currentWeek = 2
    /\ Len(result.courseWeekStats) = 2
    /\ result.courseWeekStats[1].totalWeeks = 10
    /\ result.courseWeekStats[1].currentWeek = 7
    /\ Len(result.courseWeekStats[1].weeklyBreakdown) = 2
    /\ result.courseWeekStats[2].totalWeeks = 11
    /\ result.courseWeekStats[2].currentWeek = 2
    /\ Len(result.courseWeekStats[2].weeklyBreakdown) = 1

(***************************************************************************)
(* Frame: the input list and repeated calls                                *)
(***************************************************************************)
InitFrame == InitWith(RowsByWeek, {5})

NextFrame == Analyze \/ CallAgain

SpecFrame == InitFrame /\ [][NextFrame]_vars

OtherCells ==
    ("Course Name" :> CourseDataFoundations) @@ ("Current Week Name" :> WeekNameIntro)
    @@ ("Week Status" :> StatusInProgress) @@ ("Current Week Progress" :> "2/5 modules")
    @@ ("Last Activity" :> "10-Jul-25") @@ ("Last Completed Module" :> "Module 1")
    @@ ("Next Action" :> ActionReview)

\* the email cell of a row: under either header, empty, or absent
EmailCells ==
    { ("Email" :> EmailA), ("email" :> EmailB), ("Email" :> ""), <<>> }

\* the two numeric cells as a CSV file gives them: numeric text, text that is
\* not numeric, empty text, or no such columns
CsvNumericCells ==
    { ("Current Week" :> Text(<<" ", "3">>)) @@ ("Week Percentage" :> Text(<<"4", "5", "%">>)),
      ("Current Week" :> Text(<<"N", "/", "A">>)) @@ ("Week Percentage" :> Text(<<"N", "/", "A">>)),
      ("Current Week" :> Text(<<>>)) @@ ("Week Percentage" :> Text(<<>>)),
      <<>> }

\* the two numeric cells as a sheet gives them: numbers, the number 0, text, or
\* no cell
ExcelNumericCells ==
    { ("Current Week" :> Number(3)) @@ ("Week Percentage" :> Number(45)),
      ("Current Week" :> Number(0)) @@ ("Week Percentage" :> Number(0)),
      ("currentWeek" :> Text(<<"W", "3">>)) @@ ("weekPercentage" :> Text(<<"4", "5", "%">>)),
      <<>> }

CsvRows == {e @@ n @@ OtherCells : e \in EmailCells, n \in CsvNumericCells}

ExcelRows ==
    {e @@ n @@ OtherCells : e \in {("Email" :> EmailA), <<>>}, n \in ExcelNumericCells}

\* the files a user can drop: CSV, Excel, or a file of another kind
Files ==
    {[extension |-> "csv", rows |-> r] : r \in SeqsUpTo(CsvRows, MaxRows)}
    \cup {[extension |-> x, rows |-> r] : x \in {"xlsx", "xls"}, r \in SeqsUpTo(ExcelRows, MaxRows)}
    \cup {[extension |-> "txt", rows |-> <<>>]}

InitParse ==
    /\ file \in Files
    /\ uploadedData = <<>>
    /\ data = <<>>
    /\ currentWeek = 1
    /\ result = Pending
    /\ pc = "file"
    /\ app = AppInitial
    /\ chat = ChatInitial
    /\ timers = <<>>

\* handleFile: the parser is chosen by the extension; a file of another kind or
\* one without a valid row sets the error and uploads nothing
HandleFile ==
    /\ pc = "file"
    /\ LET parsed == IF file.extension = "csv" THEN parseCSV(file.rows)
                     ELSE parseExcel(file.rows)
       IN IF file.extension \notin {"csv", "xlsx", "xls"} \/ parsed = <<>>
          THEN pc' = "rejected" /\ UNCHANGED uploadedData
          ELSE pc' = "uploaded" /\ uploadedData' = parsed
    /\ UNCHANGED <<data, currentWeek, result, file, app, chat, timers>>

NextParse == HandleFile

SpecParse == InitParse /\ [][NextParse]_vars

\* whether a row of the file has an email under either header
HasEmail(row) ==
    \/ "Email" \in DOMAIN row /\ row["Email"] # ""
    \/ "email" \in DOMAIN row /\ row["email"] # ""

\* the rows of the file that have an email, in file order
RowsWithEmail == SelectSeq(file.rows, HasEmail)

\* the email of a row of the file that has one
EmailOf(row) ==
    IF "Email" \in DOMAIN row /\ row["Email"] # "" THEN row["Email"] ELSE row["email"]

\* C19: every row the parser hands on has a non-empty email: the rows handed
\* on are the rows of the file that have an email cell with text, in file
\* order, and a file with no such row hands on nothing.
C19_NoRowWithoutEmail ==
    /\ \A i \in Indices(uploadedData) : uploadedData[i].email # ""
    /\ pc = "uploaded" =>
          /\ Len(uploadedData) = Len(RowsWithEmail)
          /\ \A i \in Indices(uploadedData) :
                uploadedData[i].email = EmailOf(RowsWithEmail[i])
    /\ pc = "rejected" => uploadedData = <<>>

\* a CSV file of three rows whose middle row has an empty email cell
C19_Witness ==
    /\ pc = "uploaded"
    /\ file.extension = "csv"
    /\ Len(file.rows) = 3
    /\ "Email" \in DOMAIN file.rows[2] /\ file.rows[2]["Email"] = ""
    /\ Len(uploadedData) = 2
    /\ uploadedData[1].email = EmailA
    /\ uploadedData[2].email = EmailB

\* C20: every parsed row has numbers for currentWeek and weekPercentage, never
\* NaN, and 0 where the cell is absent or is not numeric text.
C20_NumericCellsCoercedToZero ==
    pc = "uploaded" =>
        \A i \in Indices(uploadedData) :
            /\ ~isNaN(uploadedData[i].currentWeek)
            /\ ~isNaN(uploadedData[i].weekPercentage)
            /\ DOMAIN RowsWithEmail[i] \cap {"Current Week", "currentWeek"} = {}
                  => uploadedData[i].currentWeek = 0
            /\ DOMAIN RowsWithEmail[i] \cap {"Week Percentage", "weekPercentage"} = {}
                  => uploadedData[i].weekPercentage = 0

(***************************************************************************)
(* The App component (App.tsx): its state is the record app; pc is "idle"  *)
(* between events and names the handler that is suspended at its await.    *)
(* The engine's promise is settled when the call returns, so the           *)
(* continuation of a handler is a microtask: it runs before the next user  *)
(* event is dispatched, and no handler starts while another is suspended.  *)
(***************************************************************************)
\* the rejection of the promise: a TypeError thrown inside analyzeLearnerData
Thrown == [thrown |-> TRUE]

\* whether a field of a row is text; a numeric cell of a sheet comes as a number
isText(v) == v = <<>> \/ v[1] # "number"

\* learner.weekStatus.toLowerCase() throws for a row whose weekStatus is no string
throwsTypeError(rows) == \E i \in 1..Len(rows) : ~isText(rows[i].weekStatus)

\* await analyzeLearnerData(rows, week): the value, or the rejection
awaitAnalysis(rows, week) ==
    IF throwsTypeError(rows) THEN Thrown ELSE analyzeLearnerData(rows, week)

\* a filter that keeps every row
filterNothing(rows, course) == rows

\* data.filter(learner => learner.courseName === course)
filterByCourse(rows, course) == SelectSeq(rows, LAMBDA learner : learner.courseName = course)

\* Array.from(new Set(data.map(item => item.courseName).filter(Boolean)))
uniqueCourses(rows) ==
    distinctInOrder(SelectSeq([i \in 1..Len(rows) |-> rows[i].courseName],
                              LAMBDA name : name # <<>>))

StopWords == {<<"a", "n", "d">>, <<"o", "r">>, <<"t", "h", "e">>, <<"o", "f">>, <<"i", "n">>, <<"o", "n">>, <<"a", "t">>, <<"t", "o">>, <<"f", "o", "r">>, <<"w", "i", "t", "h">>, <<"b", "y">>}

\* the upper-case letter of a lower-case letter
toUpperCaseChar(c) ==
    IF \E i \in 1..Len(LowerChars) : LowerChars[i] = c
    THEN UpperChars[CHOOSE i \in 1..Len(LowerChars) : LowerChars[i] = c]
    ELSE c

\* split(/[\s\-_]+/).filter(word => word.length > 0)
RECURSIVE splitWords(_)
splitWords(s) ==
    LET seps == {i \in 1..Len(s) : s[i] \in {" ", "\t", "-", "_"}}
    IN IF s = <<>> THEN <<>>
       ELSE IF seps = {} THEN <<s>>
       ELSE LET k == CHOOSE i \in seps : \A j \in seps : i <= j
            IN (IF k = 1 THEN <<>> ELSE <<SubSeq(s, 1, k - 1)>>)
               \o splitWords(SubSeq(s, k + 1, Len(s)))

\* createAbbreviation, for names made of letters and blanks: the stop words are
\* removed, and the upper-cased initials of the first four words are joined
createAbbreviation(courseName) ==
    LET words == SelectSeq(splitWords(courseName), LAMBDA w : toLowerCase(w) \notin StopWords)
        initials == [i \in 1..Len(words) |-> toUpperCaseChar(words[i][1])]
    IN SubSeq(initials, 1, IF Len(initials) < 4 THEN Len(initials) ELSE 4)

\* generateAllCoursesOverview: one engine call per course; a rejected call
\* rejects the overview
generateAllCoursesOverview(rows, week) ==
    LET courses == uniqueCourses(rows)
    IN IF \E i \in 1..Len(courses) : throwsTypeError(filterByCourse(rows, courses[i]))
       THEN Thrown
       ELSE [i \in 1..Len(courses) |->
               LET courseAnalysis == analyzeLearnerData(filterByCourse(rows, courses[i]), week)
               IN [courseAbbrev |-> createAbbreviation(courses[i]), fullName |-> courses[i]]
                  @@ courseAnalysis.courseStats[1]]

\* a row of a sheet: the email, course, week and status cells given, the rest as
\* in every sample row
SheetRow(email, courseName, week, weekStatus) ==
    ("Email" :> email) @@ ("Course Name" :> courseName) @@ ("Current Week" :> Number(week))
    @@ ("Week Percentage" :> Number(50)) @@ ("Week Status" :> weekStatus) @@ OtherCells

\* two courses, every status cell text
FileTwoCourses ==
    [extension |-> "xlsx",
     rows |-> << SheetRow(EmailA, CourseDataFoundations, 2, StatusInProgress),
                 SheetRow(EmailB, CourseDeveloperFundamentals, 5, StatusCompleted),
                 SheetRow(EmailA, CourseDeveloperFundamentals, 4, StatusInProgress) >>]

\* two courses, the status cell of the second course's row a number
FileNumericStatus ==
    [extension |-> "xlsx",
     rows |-> << SheetRow(EmailA, CourseDataFoundations, 1, StatusInProgress),
                 SheetRow(EmailB, CourseDeveloperFundamentals, 3, Number(5)) >>]

\* one course
FileOneCourse ==
    [extension |-> "xlsx",
     rows |-> << SheetRow(EmailB, CourseDataFoundations, 4, StatusNotStarted) >>]

AppFiles == {FileTwoCourses, FileNumericStatus, FileOneCourse}

\* the program weeks the user enters before proceeding
UploadWeeks == {2, 5}

InitApp ==
    /\ app = AppInitial
    /\ chat = ChatInitial
    /\ timers = <<>>
    /\ file = NoFile
    /\ uploadedData = <<>>
    /\ data = <<>>
    /\ currentWeek = 1
    /\ result = Pending
    /\ pc = "idle"

\* no handler is suspended: the next user event can be dispatched
IsIdle == pc \in {"idle", "uploaded", "rejected"}

\* handleDrop / handleFileSelect: the user hands a file to the upload form
DropFile ==
    /\ IsIdle
    /\ app.activeTab = "upload"
    /\ file' \in AppFiles
    /\ pc' = "file"
    /\ UNCHANGED <<data, currentWeek, result, uploadedData, app, chat, timers>>

\* tab buttons that are all enabled
tabNeverDisabled(tab, analysisResult) == FALSE

\* disabled={!analysisResult} on the Dashboard button
tabDisabled(tab, analysisResult) == tab = "dashboard" /\ analysisResult = Null

\* setActiveTab from a tab button; the Dashboard button is disabled while
\* analysisResult is null; leaving the upload tab unmounts the upload form
SetActiveTab ==
    /\ IsIdle
    /\ \E tab \in {"upload", "dashboard", "methodology"} :
          /\ tab # app.activeTab
          /\ ~tabDisabled(tab, app.analysisResult)
          /\ app' = [app EXCEPT !.activeTab = tab]
    /\ IF app.activeTab = "upload"
       THEN file' = NoFile /\ uploadedData' = <<>> /\ pc' = "idle"
       ELSE UNCHANGED <<file, uploadedData, pc>>
    /\ UNCHANGED <<data, currentWeek, result, chat, timers>>

\* a handler without its finally block
withoutFinally(a) == a

\* finally { setIsProcessing(false); }
finallyBlock(a) == [a EXCEPT !.isProcessing = FALSE]

\* handleProceedToAnalysis and handleFileUpload up to its first await
HandleFileUpload ==
    /\ IsIdle
    /\ app.activeTab = "upload"
    /\ uploadedData # <<>>
    /\ \E week \in UploadWeeks :
       \E selectedCourse \in {uniqueCourses(uploadedData)[i] :
                                 i \in 1..Len(uniqueCourses(uploadedData))} :
          app' = [app EXCEPT !.isProcessing = TRUE,
                             !.originalData = uploadedData,
                             !.availableCourses = uniqueCourses(uploadedData),
                             !.currentWeek = week,
                             !.currentCourse = selectedCourse]
    /\ pc' = "handleFileUpload"
    /\ UNCHANGED <<data, currentWeek, result, file, uploadedData, chat, timers>>

\* handleFileUpload from its first await to its end: the overview, the filtered
\* rows, the analysis and the switch to the dashboard, or the catch; finally
\* isProcessing is reset
HandleFileUploadResume ==
    /\ pc = "handleFileUpload"
    /\ LET rows == app.originalData
           week == app.currentWeek
           selectedCourse == app.currentCourse
           filteredData == IF selectedCourse # <<>> THEN filterByCourse(rows, selectedCourse)
                           ELSE rows
       IN IF throwsTypeError(rows)
          THEN /\ app' = finallyBlock(app)
               /\ pc' = "uploaded"
               /\ UNCHANGED <<file, uploadedData>>
          ELSE /\ app' = finallyBlock(
                            [app EXCEPT !.allCoursesOverview = generateAllCoursesOverview(rows, week),
                                        !.learnerData = filteredData,
                                        !.analysisResult = awaitAnalysis(filteredData, week),
                                        !.activeTab = "dashboard"])
               /\ pc' = "idle"
               /\ file' = NoFile
               /\ uploadedData' = <<>>
    /\ UNCHANGED <<data, currentWeek, result, chat, timers>>

\* handleCourseChange up to its await: the selector offers the available
\* courses once there are two, and fires when the selection changes
HandleCourseChange ==
    /\ IsIdle
    /\ app.activeTab = "dashboard"
    /\ app.analysisResult # Null
    /\ Len(app.availableCourses) > 1
    /\ \E newCourse \in {app.availableCourses[i] : i \in 1..Len(app.availableCourses)} :
          /\ newCourse # app.currentCourse
          /\ app' = [app EXCEPT !.isProcessing = TRUE,
                                !.currentCourse = newCourse,
                                !.learnerData = filterByCourse(app.originalData, newCourse)]
    /\ pc' = "handleCourseChange"
    /\ UNCHANGED <<data, currentWeek, result, file, uploadedData, chat, timers>>

\* handleCourseChange from its await to its end
HandleCourseChangeResume ==
    /\ pc = "handleCourseChange"
    /\ LET outcome == awaitAnalysis(app.learnerData, app.currentWeek)
       IN IF outcome = Thrown
          THEN app' = finallyBlock(app)
          ELSE app' = finallyBlock([app EXCEPT !.analysisResult = outcome])
    /\ pc' = "idle"
    /\ UNCHANGED <<data, currentWeek, result, file, uploadedData, chat, timers>>

NextApp ==
    \/ DropFile
    \/ HandleFile
    \/ SetActiveTab
    \/ HandleFileUpload
    \/ HandleFileUploadResume
    \/ HandleCourseChange
    \/ HandleCourseChangeResume

SpecApp == InitApp /\ [][NextApp]_vars

\* the rows of the selected course among the rows an App state holds
SelectedRows(a) ==
    SelectSeq(a.originalData, LAMBDA row : row.courseName = a.currentCourse)

\* an App state displays the analysis of its selected course: learnerData are
\* the rows of that course, and analysisResult covers that course alone and is
\* what the engine computes for those rows and the stored week
DisplaysSelectedCourse(a) ==
    /\ a.learnerData = SelectedRows(a)
    /\ a.analysisResult # Null
    /\ Len(a.analysisResult.courseStats) = 1
    /\ a.analysisResult.courseStats[1].courseName = a.currentCourse
    /\ ~throwsTypeError(SelectedRows(a)) =>
          a.analysisResult = analyzeLearnerData(SelectedRows(a), a.currentWeek)

atRiskAnswerCount(analysisResult) ==
    IF hasProperty(analysisResult, "isGracePeriod") /\ analysisResult.isGracePeriod
    THEN 0
    ELSE Len(analysisResult.atRiskLearners)

\* ReportGenerator, Excel report: the emails of the rows with Status Category 'At Risk'
atRiskReportRows(analysisResult) ==
    [i \in 1..Len(analysisResult.atRiskLearners) |-> analysisResult.atRiskLearners[i].email]

\* ReportGenerator, Slack scripts: the emails of the learners a script is written for
slackScriptLearners(analysisResult) ==
    [i \in 1..Len(analysisResult.atRiskLearners) |-> analysisResult.atRiskLearners[i].email]

\* C22: in weeks 1-3 the at-risk answer reports 0, and the Excel report and the
\* Slack scripts list no at-risk learner.
C22_GracePeriodSuppressesRiskList ==
    (Returned /\ currentWeek <= 3) =>
        /\ atRiskAnswerCount(result) = 0
        /\ atRiskReportRows(result) = <<>>
        /\ slackScriptLearners(result) = <<>>

(***************************************************************************)
(* The documented risk rule                                                *)
(***************************************************************************)
\* C23: a learner 3 or more weeks behind the program week is flagged At Risk,
\* with risk level Medium for 3-5 weeks behind and High for 6 or more.
C23_DocumentedRiskRule ==
    Returned =>
        \A i \in 1..Len(data) :
            WeeksBehind(data[i]) >= 3 =>
                \E j \in 1..Len(result.atRiskLearners) :
                    /\ Strip(result.atRiskLearners[j]) = data[i]
                    /\ result.atRiskLearners[j].riskLevel =
                          IF WeeksBehind(data[i]) >= 6 THEN "High" ELSE "Medium"

(***************************************************************************)
(* Weekly counts                                                           *)
(***************************************************************************)
\* the three status counts of a weekly entry add up to its learnersCount
CountsAddUp(entry) ==
    entry.completedCount + entry.inProgressCount + entry.notStartedCount = entry.learnersCount

\* C24: in every weeklyProgressStats entry and every weeklyBreakdown entry each
\* counted row is in exactly one of the three counts (a status that matches no
\* rule counts as In Progress), so the three counts add up to learnersCount.
C24_WeeklyCountsPartitionRows ==
    Returned =>
        /\ \A i \in 1..Len(result.weeklyProgressStats) :
              CountsAddUp(result.weeklyProgressStats[i])
        /\ \A c \in 1..Len(result.courseWeekStats) :
              \A i \in 1..Len(result.courseWeekStats[c].weeklyBreakdown) :
                  CountsAddUp(result.courseWeekStats[c].weeklyBreakdown[i])

(***************************************************************************)
(* The AI assistant (AIInsights): query routing and the chat               *)
(***************************************************************************)
\* the substrings processQuery looks for in the lower-cased query, test by test
CompletionWords ==
    { <<"c", "o", "m", "p", "l", "e", "t", "i", "o", "n", " ", "r", "a", "t", "e">>,
      <<"c", "o", "m", "p", "l", "e", "t", "e">> }

AtRiskWords ==
    { <<"a", "t", " ", "r", "i", "s", "k">>,
      <<"a", "t", "t", "e", "n", "t", "i", "o", "n">>,
      <<"b", "e", "h", "i", "n", "d">> }

CourseWords ==
    { <<"c", "o", "u", "r", "s", "e">> }

CourseAttentionWords ==
    { <<"m", "o", "s", "t", " ", "a", "t", "t", "e", "n", "t", "i", "o", "n">>,
      <<"n", "e", "e", "d", "s", " ", "a", "t", "t", "e", "n", "t", "i", "o", "n">>,
      <<"w", "o", "r", "s", "t">>,
      <<"s", "t", "r", "u", "g", "g", "l", "i", "n", "g">> }

CourseBestWords ==
    { <<"l", "e", "a", "s", "t", " ", "a", "t", "t", "e", "n", "t", "i", "o", "n">>,
      <<"b", "e", "s", "t">>,
      <<"p", "e", "r", "f", "o", "r", "m", "i", "n", "g", " ", "w", "e", "l", "l">>,
      <<"d", "o", "i", "n", "g", " ", "w", "e", "l", "l">> }

CourseCompareWords ==
    { <<"c", "o", "m", "p", "a", "r", "e">>,
      <<"p", "e", "r", "f", "o", "r", "m", "a", "n", "c", "e">> }

TrendWords ==
    { <<"t", "r", "e", "n", "d">>,
      <<"p", "r", "o", "g", "r", "e", "s", "s">>,
      <<"d", "i", "s", "t", "r", "i", "b", "u", "t", "i", "o", "n">> }

InsightWords ==
    { <<"i", "n", "s", "i", "g", "h", "t">>,
      <<"s", "u", "m", "m", "a", "r", "y">>,
      <<"o", "v", "e", "r", "v", "i", "e", "w">> }

DirectoryWords ==
    { <<"d", "i", "r", "e", "c", "t", "o", "r", "y">>,
      <<"c", "o", "n", "t", "a", "c", "t">>,
      <<"s", "l", "a", "c", "k">> }

CountWords ==
    { <<"h", "o", "w", " ", "m", "a", "n", "y">>,
      <<"c", "o", "u", "n", "t">>,
      <<"n", "u", "m", "b", "e", "r", " ", "o", "f">> }

PercentageWords ==
    { <<"p", "e", "r", "c", "e", "n", "t", "a", "g", "e">>,
      <<"p", "e", "r", "c", "e", "n", "t">>,
      <<"%">> }

RecommendWords ==
    { <<"r", "e", "c", "o", "m", "m", "e", "n", "d">>,
      <<"s", "u", "g", "g", "e", "s", "t">>,
      <<"s", "h", "o", "u", "l", "d", " ", "i">>,
      <<"w", "h", "a", "t", " ", "t", "o", " ", "d", "o">> }

\* the questions the welcome message and the help text offer, a greeting, a
\* blank input and a question typed with surrounding spaces
QMostAttention ==
    << "W", "h", "i", "c", "h", " ", "c", "o", "u", "r", "s", "e", " ", "n", "e", "e",
       "d", "s", " ", "t", "h", "e", " ", "m", "o", "s", "t", " ", "a", "t", "t", "e",
       "n", "t", "i", "o", "n", "?" >>
QNeedsAttention ==
    << "W", "h", "i", "c", "h", " ", "c", "o", "u", "r", "s", "e", " ", "n", "e", "e",
       "d", "s", " ", "a", "t", "t", "e", "n", "t", "i", "o", "n", "?" >>
QCompletionRate ==
    << "W", "h", "a", "t", "'", "s", " ", "t", "h", "e", " ", "c", "o", "m", "p", "l",
       "e", "t", "i", "o", "n", " ", "r", "a", "t", "e", "?" >>
QTrends ==
    << "S", "h", "o", "w", " ", "m", "e", " ", "p", "r", "o", "g", "r", "e", "s", "s",
       " ", "t", "r", "e", "n", "d", "s" >>
QCompare ==
    << "C", "o", "m", "p", "a", "r", "e", " ", "c", "o", "u", "r", "s", "e", " ", "p",
       "e", "r", "f", "o", "r", "m", "a", "n", "c", "e" >>
QInsights ==
    << "W", "h", "a", "t", " ", "a", "r", "e", " ", "t", "h", "e", " ", "m", "a", "i",
       "n", " ", "i", "n", "s", "i", "g", "h", "t", "s", "?" >>
QBest ==
    << "W", "h", "i", "c", "h", " ", "c", "o", "u", "r", "s", "e", " ", "i", "s", " ",
       "p", "e", "r", "f", "o", "r", "m", "i", "n", "g", " ", "b", "e", "s", "t", "?" >>
QHowManyAtRisk ==
    << "H", "o", "w", " ", "m", "a", "n", "y", " ", "l", "e", "a", "r", "n", "e", "r",
       "s", " ", "a", "r", "e", " ", "a", "t", " ", "r", "i", "s", "k", "?" >>
QHowManyCompleted ==
    << "H", "o", "w", " ", "m", "a", "n", "y", " ", "c", "o", "m", "p", "l", "e", "t",
       "e", "d", "?" >>
QPercentageCompleted ==
    << "W", "h", "a", "t", " ", "p", "e", "r", "c", "e", "n", "t", "a", "g", "e", " ",
       "a", "r", "e", " ", "c", "o", "m", "p", "l", "e", "t", "e", "d", "?" >>
QShouldI ==
    << "W", "h", "a", "t", " ", "s", "h", "o", "u", "l", "d", " ", "I", " ", "d", "o",
       "?" >>
QHello ==
    << "H", "e", "l", "l", "o" >>
QBlank ==
    << " ", " " >>
QPadded ==
    << " ", "W", "h", "a", "t", " ", "d", "o", " ", "y", "o", "u", " ", "r", "e", "c",
       "o", "m", "m", "e", "n", "d", "?", " " >>

Queries ==
    {QMostAttention, QNeedsAttention, QCompletionRate, QTrends, QCompare, QInsights, QBest,
     QHowManyAtRisk, QHowManyCompleted, QPercentageCompleted, QShouldI, QHello, QBlank, QPadded}

\* processQuery: the branch whose response is returned, by the first test in
\* source order that the lower-cased query passes
processQuery(query) ==
    LET lowerQuery == toLowerCase(query)
        has(words) == \E w \in words : includes(lowerQuery, w)
    IN IF has(CompletionWords) THEN "completionRate"
       ELSE IF has(AtRiskWords) THEN "atRisk"
       ELSE IF has(CourseWords) /\ has(CourseAttentionWords) THEN "courseAttention"
       ELSE IF has(CourseWords) /\ has(CourseBestWords) THEN "courseBest"
       ELSE IF has(CourseWords) /\ has(CourseCompareWords) THEN "courseCompare"
       ELSE IF has(TrendWords) THEN "trends"
       ELSE IF has(InsightWords) THEN "insights"
       ELSE IF has(DirectoryWords) THEN "directory"
       ELSE IF has(CountWords) THEN "count"
       ELSE IF has(PercentageWords) THEN "percentage"
       ELSE IF has(RecommendWords) THEN "recommend"
       ELSE "default"

\* a chat message; the content of an AI message is the name of the branch of
\* processQuery that wrote it
ChatMessage(type, content) == [type |-> type, content |-> content]

WelcomeMessage == ChatMessage("ai", <<"welcome">>)

\* a chat that holds this many messages is followed no further
MaxMessages == 4

\* a send that changes nothing
sendNeverIgnored(inputValue, isTyping) == FALSE

\* handleSendMessage returns at once
sendIgnored(inputValue, isTyping) == trim(inputValue) = <<>> \/ isTyping

InitChat ==
    /\ data = <<>>
    /\ currentWeek = 5
    /\ result = Pending
    /\ pc = "mounting"
    /\ file = NoFile
    /\ uploadedData = <<>>
    /\ app = AppInitial
    /\ chat = ChatInitial
    /\ timers = <<>>

\* useEffect(() => { if (messages.length === 0) setMessages([welcomeMessage]) }, [])
WelcomeEffect ==
    /\ pc = "mounting"
    /\ chat' = IF Len(chat.messages) = 0
               THEN [chat EXCEPT !.messages = <<WelcomeMessage>>]
               ELSE chat
    /\ pc' = "mounted"
    /\ UNCHANGED <<data, currentWeek, result, file, uploadedData, app, timers>>

\* onChange of the input
SetInputValue ==
    /\ pc = "mounted"
    /\ \E text \in Queries :
          /\ text # chat.inputValue
          /\ chat' = [chat EXCEPT !.inputValue = text]
    /\ UNCHANGED <<data, currentWeek, result, pc, file, uploadedData, app, timers>>

\* Enter in the input, or the send button
HandleSendMessage ==
    /\ pc = "mounted"
    /\ Len(chat.messages) < MaxMessages
    /\ IF sendIgnored(chat.inputValue, chat.isTyping)
       THEN UNCHANGED <<chat, timers>>
       ELSE LET userMessage == ChatMessage("user", trim(chat.inputValue))
            IN /\ chat' = [messages |-> Append(chat.messages, userMessage),
                           inputValue |-> <<>>,
                           isTyping |-> TRUE]
               /\ timers' = Append(timers, userMessage.content)
    /\ UNCHANGED <<data, currentWeek, result, pc, file, uploadedData, app>>

\* the callback of setTimeout
TimerFires ==
    /\ timers # <<>>
    /\ LET aiMessage == ChatMessage("ai", <<processQuery(Head(timers))>>)
       IN chat' = [chat EXCEPT !.messages = Append(@, aiMessage), !.isTyping = FALSE]
    /\ timers' = Tail(timers)
    /\ UNCHANGED <<data, currentWeek, result, pc, file, uploadedData, app>>

NextChat == WelcomeEffect \/ SetInputValue \/ HandleSendMessage \/ TimerFires

SpecChat == InitChat /\ [][NextChat]_vars

\* the steps of WelcomeEffect and of TimerFires, told by what they do to the
\* position of the component and to the pending timers
EffectRuns == pc = "mounting" /\ pc' = "mounted"

TimerRuns == timers # <<>> /\ timers' = Tail(timers)

\* the effect runs after the first render, and a timer that was set fires
SpecChatFair == SpecChat /\ WF_pc(EffectRuns) /\ WF_timers(TimerRuns)

\* the message after message i, when there is one, comes from the given branch
AnsweredBy(i, branch) ==
    i + 1 <= Len(chat.messages) => chat.messages[i + 1] = ChatMessage("ai", <<branch>>)

\* C25: the assistant answers "Which course needs the most attention?" and
\* "Which course needs attention?" from the course-attention branch, not from
\* the at-risk branch.
C25_AdvertisedQuestionsReachCourseBranch ==
    \A i \in 1..Len(chat.messages) :
        (chat.messages[i].type = "user"
           /\ chat.messages[i].content \in {QMostAttention, QNeedsAttention})
        => AnsweredBy(i, "courseAttention")

(***************************************************************************)
(* Course statistics: totals                                               *)
(***************************************************************************)
\* rows that differ in learner, course and status text, each 2 weeks behind week 5
RowsByCourseAndStatus ==
    {LearnerData(e, c, 3, s, 50, ActionReview) :
        e \in {EmailA, EmailB},
        c \in {CourseDataFoundations, CourseDeveloperFundamentals},
        s \in {StatusCompleted, StatusPaused, StatusMixed}}

InitCourseStats == InitWith(RowsByCourseAndStatus, {5})

SpecCourseStats == InitCourseStats /\ [][Next]_vars

\* the index of the first row of a course
FirstRowOfCourse(c) ==
    CHOOSE i \in Indices(data) :
        data[i].courseName = c /\ \A j \in 1..(i - 1) : data[j].courseName # c

\* C26: in every CourseStats entry inProgress + completed + notStarted =
\* totalLearners and 0 <= atRisk <= totalLearners; courseStats has one entry per
\* distinct courseName, in the order in which the courses first appear in the input.
C26_CourseStatsTotals ==
    Returned =>
        LET cs == result.courseStats
        IN /\ Len(cs) = Cardinality(Courses)
           /\ {cs[i].courseName : i \in Indices(cs)} = Courses
           /\ \A i, j \in Indices(cs) :
                 i < j => FirstRowOfCourse(cs[i].courseName) < FirstRowOfCourse(cs[j].courseName)
           /\ \A i \in Indices(cs) :
                 /\ cs[i].inProgress + cs[i].completed + cs[i].notStarted = cs[i].totalLearners
                 /\ 0 <= cs[i].atRisk
                 /\ cs[i].atRisk <= cs[i].totalLearners

\* two courses, the second of the catalogue first in the input; a status that
\* matches no rule, and a learner who is at risk
C26_Witness ==
    /\ Returned
    /\ Len(data) = 3
    /\ data[1].courseName = CourseDeveloperFundamentals
    /\ data[1].weekStatus = StatusPaused
    /\ data[2].courseName = CourseDataFoundations
    /\ data[3].courseName = CourseDeveloperFundamentals
    /\ data[3].email # data[1].email
    /\ result.courseStats[1].courseName = CourseDeveloperFundamentals
    /\ result.courseStats[1].totalLearners = 2
    /\ result.courseStats[1].atRisk > 0

(***************************************************************************)
(* Status distribution: total                                              *)
(***************************************************************************)
\* C27: the counts of the riskDistribution entries add up to totalLearners: each
\* distinct email is counted in exactly one of In Progress, Completed, At Risk,
\* Not Started, and the entries dropped for a zero count add nothing.
C27_RiskCountsSumToTotal ==
    Returned =>
        LET rd == result.riskDistribution
        IN /\ \A i \in Indices(rd) : \E k \in 1..4 : rd[i].name = RiskNames[k]
           /\ \A i, j \in Indices(rd) : rd[i].name = rd[j].name => i = j
           /\ RiskCount("In Progress") + RiskCount("Completed")
                 + RiskCount("At Risk") + RiskCount("Not Started") = result.totalLearners
           /\ result.totalLearners = Cardinality(Emails)

\* a learner with two rows next to another learner, a status that matches no
\* rule, and a category dropped for its zero count
C27_Witness ==
    /\ Returned
    /\ Len(data) = 3
    /\ data[1].email = data[2].email
    /\ data[3].email # data[1].email
    /\ data[3].weekStatus = StatusPaused
    /\ data[2].weekStatus = StatusCompleted
    /\ result.totalLearners = 2
    /\ Len(result.riskDistribution) = 2
    /\ RiskCount("At Risk") = 1

(***************************************************************************)
(* The App component: tabs and the displayed result                        *)
(***************************************************************************)
\* C28: while the Dashboard tab is active analysisResult is not null, and
\* analysisResult, once set, is never reset to null.
C28_DashboardHasResult ==
    /\ [](app.activeTab = "dashboard" => app.analysisResult # Null)
    /\ [][app.analysisResult # Null => app'.analysisResult # Null]_vars

\* the Dashboard tab is active after an upload that failed: the rows held are
\* those of the failed upload and the result is the one of the upload before it
C28_Witness ==
    /\ app.activeTab = "dashboard"
    /\ app.analysisResult # Null
    /\ Len(app.originalData) = 2
    /\ app.originalData[1].currentWeek = 1
    /\ app.learnerData # <<>>
    /\ app.learnerData[1].currentWeek \in {2, 4, 5}

\* the continuation of the handler that is awaiting the engine runs: the steps
\* of HandleFileUploadResume and HandleCourseChangeResume, told by the position
\* they leave and the position they reach
ContinuationRuns ==
    /\ pc \in {"handleFileUpload", "handleCourseChange"}
    /\ pc' \in {"idle", "uploaded"}

\* a continuation after an await is a microtask: once the awaited promise has
\* settled it runs, and the engine's promise is settled when the call returns
SpecAppFair == SpecApp /\ WF_pc(ContinuationRuns)

\* the step in which a handler that was awaiting the engine finishes
HandlerFinishes == pc \in {"handleFileUpload", "handleCourseChange"} /\ pc' # pc

\* the engine call of the handler that is awaiting throws
EngineThrows ==
    IF pc = "handleFileUpload" THEN throwsTypeError(app.originalData)
    ELSE throwsTypeError(app.learnerData)

\* C29: every handleFileUpload and handleCourseChange call eventually resets
\* isProcessing to false, also when the engine throws; when it throws,
\* analysisResult and activeTab keep their values and the selection already
\* written (currentCourse, and for an upload originalData, availableCourses and
\* currentWeek) stays as written.
C29_ProcessingAlwaysEnds ==
    /\ app.isProcessing ~> ~app.isProcessing
    /\ [](app.isProcessing <=> pc \in {"handleFileUpload", "handleCourseChange"})
    /\ [][HandlerFinishes => ~app'.isProcessing]_vars
    /\ [][(HandlerFinishes /\ EngineThrows) =>
            /\ app'.analysisResult = app.analysisResult
            /\ app'.activeTab = app.activeTab
            /\ app'.currentCourse = app.currentCourse
            /\ app'.originalData = app.originalData
            /\ app'.availableCourses = app.availableCourses
            /\ app'.currentWeek = app.currentWeek
            /\ pc = "handleFileUpload" =>
                  /\ app'.originalData = uploadedData
                  /\ app'.availableCourses = uniqueCourses(uploadedData)]_vars

\* a first upload whose engine call threw: nothing is processing, the rows and
\* the week of the upload are held, and there is still no result
C29_Witness ==
    /\ pc = "uploaded"
    /\ ~app.isProcessing
    /\ app.originalData # <<>>
    /\ app.originalData = uploadedData
    /\ throwsTypeError(app.originalData)
    /\ app.currentWeek = 5
    /\ app.currentCourse = CourseDeveloperFundamentals
    /\ app.analysisResult = Null
    /\ app.activeTab = "upload"

\* the messages of the chat alternate: the welcome message, then a user message
\* and the AI reply to it, and so on
Alternates(messages) ==
    /\ messages # <<>>
    /\ messages[1] = WelcomeMessage
    /\ \A i \in 2..Len(messages) :
          IF i % 2 = 0
          THEN messages[i].type = "user" /\ trim(messages[i].content) # <<>>
          ELSE messages[i] = ChatMessage("ai", <<processQuery(messages[i - 1].content)>>)

\* the last message is a user message
AwaitingReply == chat.messages # <<>> /\ chat.messages[Len(chat.messages)].type = "user"

\* C30: a send is ignored while isTyping or while the input is blank; after the
\* welcome message the messages alternate user / AI; every accepted user message
\* is eventually followed by exactly one AI reply, and isTyping returns to false.
C30_ChatAlternates ==
    /\ [](pc = "mounted" => Alternates(chat.messages))
    /\ [](chat.isTyping <=> AwaitingReply)
    /\ [](Len(timers) = IF chat.isTyping THEN 1 ELSE 0)
    /\ [][Len(chat'.messages) > Len(chat.messages) /\ chat'.isTyping =>
             ~chat.isTyping /\ trim(chat.inputValue) # <<>>]_vars
    /\ AwaitingReply ~> ~AwaitingReply
    /\ chat.isTyping ~> ~chat.isTyping

\* two questions asked and answered, the second typed with surrounding spaces
C30_Witness ==
    /\ Len(chat.messages) = 5
    /\ ~chat.isTyping
    /\ timers = <<>>
    /\ chat.messages[2] = ChatMessage("user", QHello)
    /\ chat.messages[3] = ChatMessage("ai", <<"default">>)
    /\ chat.messages[4] = ChatMessage("user", trim(QPadded))
    /\ chat.messages[5] = ChatMessage("ai", <<"recommend">>)
    /\ chat.inputValue = QBlank

====
